---------------------------- MODULE Spec2Model ----------------------------
(***************************************************************************)
(* Payout extraction engine of paperless-document-processor.              *)
(*                                                                         *)
(* The model covers the payout webhook (cmd/server/main.go), the DuckDB    *)
(* ingestion and projection (pkg/storage/db.go), the configuration model   *)
(* (config/config.go) and the cell/range algebra (package excel).          *)
(*                                                                         *)
(* Go strings are sequences of one-character strings, so that parsing and  *)
(* formatting are computed character by character as the code does.        *)
(***************************************************************************)
EXTENDS Integers, Sequences, FiniteSets, TLC

(***************************************************************************)
(* Bounds of the model.                                                    *)
(***************************************************************************)
MaxRuns == 2

\* longest text handed to the cell and range parsers
MaxLen == 4

(***************************************************************************)
(* Strings.                                                                *)
(***************************************************************************)
Digits == <<"0", "1", "2", "3", "4", "5", "6", "7", "8", "9">>

IsDigit(c) == \E i \in 1..10 : Digits[i] = c

DigitVal(c) == (CHOOSE i \in 1..10 : Digits[i] = c) - 1

UpperLetters ==
    <<"A", "B", "C", "D", "E", "F", "G", "H", "I", "J", "K", "L", "M",
      "N", "O", "P", "Q", "R", "S", "T", "U", "V", "W", "X", "Y", "Z">>

LowerLetters ==
    <<"a", "b", "c", "d", "e", "f", "g", "h", "i", "j", "k", "l", "m",
      "n", "o", "p", "q", "r", "s", "t", "u", "v", "w", "x", "y", "z">>

LowerChar(c) ==
    IF \E k \in 1..26 : UpperLetters[k] = c
    THEN LowerLetters[CHOOSE k \in 1..26 : UpperLetters[k] = c]
    ELSE c

\* strings.ToLower
RECURSIVE ToLower(_)
ToLower(s) ==
    IF s = <<>> THEN <<>> ELSE <<LowerChar(Head(s))>> \o ToLower(Tail(s))

\* strings.ReplaceAll for a one-character pattern and replacement
RECURSIVE ReplaceAll(_, _, _)
ReplaceAll(s, old, new) ==
    IF s = <<>> THEN <<>>
    ELSE <<IF Head(s) = old THEN new ELSE Head(s)>>
         \o ReplaceAll(Tail(s), old, new)

\* strings.HasSuffix
HasSuffix(s, suffix) ==
    /\ Len(s) >= Len(suffix)
    /\ SubSeq(s, Len(s) - Len(suffix) + 1, Len(s)) = suffix

\* the suffix of s that starts at position i (1-based), s[i-1:] in Go
From(s, i) == SubSeq(s, i, Len(s))

\* fmt.Sprintf("%d", n)
RECURSIVE Itoa(_)
Itoa(n) ==
    IF n < 0 THEN <<"-">> \o Itoa(0 - n)
    ELSE IF n < 10 THEN <<Digits[n + 1]>>
    ELSE Itoa(n \div 10) \o <<Digits[(n % 10) + 1]>>

\* strconv.Atoi on a text of decimal digits: the value; any other character
\* (and the empty text) is a syntax error, reported as -1
RECURSIVE AtoiAcc(_, _)
AtoiAcc(s, acc) ==
    IF s = <<>> THEN acc
    ELSE IF ~IsDigit(Head(s)) THEN -1
    ELSE AtoiAcc(Tail(s), acc * 10 + DigitVal(Head(s)))

Atoi(s) == IF s = <<>> THEN -1 ELSE AtoiAcc(s, 0)

\* strings.Split(s, sep) for a one-character separator
RECURSIVE SplitAcc(_, _, _)
SplitAcc(s, sep, cur) ==
    IF s = <<>> THEN <<cur>>
    ELSE IF Head(s) = sep THEN <<cur>> \o SplitAcc(Tail(s), sep, <<>>)
    ELSE SplitAcc(Tail(s), sep, Append(cur, Head(s)))

Split(s, sep) == SplitAcc(s, sep, <<>>)

(***************************************************************************)
(* Cell/Range algebra (package excel).  A parse result is a record with    *)
(* an ok flag standing for the Go error value.                             *)
(***************************************************************************)
Cell(column, row) == [Column |-> column, Row |-> row]

ZeroCell == Cell(<<>>, 0)

\* position of the first digit of the text, 0 when there is none
FirstDigit(cell) ==
    IF \E i \in 1..Len(cell) : IsDigit(cell[i])
    THEN CHOOSE i \in 1..Len(cell) :
            /\ IsDigit(cell[i])
            /\ \A j \in 1..(i - 1) : ~IsDigit(cell[j])
    ELSE 0

NewCell(cell) ==
    LET i == FirstDigit(cell) IN
    IF i = 0 THEN [ok |-> TRUE, cell |-> Cell(cell, 0), err |-> ""]
    ELSE LET row == Atoi(From(cell, i)) IN
         IF row < 0
         THEN [ok |-> FALSE, cell |-> ZeroCell, err |-> "invalid cell format"]
         ELSE [ok |-> TRUE, cell |-> Cell(SubSeq(cell, 1, i - 1), row),
               err |-> ""]

Range(start, end) == [Start |-> start, End |-> end]

ZeroRange == Range(ZeroCell, ZeroCell)

\* a parser that takes a text without ':' as a range of one cell
NewRangeOfOneCell(rangeExpr) ==
    LET parts == Split(rangeExpr, ":")
        startCell == NewCell(parts[1])
        endCell == IF Len(parts) >= 2 THEN NewCell(parts[2])
                   ELSE [ok |-> TRUE, cell |-> ZeroCell, err |-> ""]
    IN IF Len(parts) > 2
       THEN [ok |-> FALSE, range |-> ZeroRange, err |-> "invalid range format"]
       ELSE IF ~startCell.ok
       THEN [ok |-> FALSE, range |-> ZeroRange, err |-> startCell.err]
       ELSE IF ~endCell.ok
       THEN [ok |-> FALSE, range |-> ZeroRange, err |-> endCell.err]
       ELSE [ok |-> TRUE, range |-> Range(startCell.cell, endCell.cell),
             err |-> ""]

NewRange(rangeExpr) ==
    LET parts == Split(rangeExpr, ":") IN
    IF Len(parts) # 2
    THEN [ok |-> FALSE, range |-> ZeroRange, err |-> "invalid range format"]
    ELSE LET startCell == NewCell(parts[1])
             endCell == NewCell(parts[2])
         IN IF ~startCell.ok
            THEN [ok |-> FALSE, range |-> ZeroRange, err |-> startCell.err]
            ELSE IF ~endCell.ok
            THEN [ok |-> FALSE, range |-> ZeroRange, err |-> endCell.err]
            ELSE [ok |-> TRUE, range |-> Range(startCell.cell, endCell.cell),
                  err |-> ""]

\* a formatter that prints the row of every cell
CellStringWithRow(c) == c.Column \o Itoa(c.Row)

CellString(c) == IF c.Row = 0 THEN c.Column ELSE c.Column \o Itoa(c.Row)

\* a formatter that prints the end cell with its row
RangeStringWithEndRow(r) ==
    CellString(r.Start) \o <<":">> \o r.End.Column \o Itoa(r.End.Row)

RangeString(r) == CellString(r.Start) \o <<":">> \o CellString(r.End)

(***************************************************************************)
(* Configuration model (config/config.go).                                 *)
(***************************************************************************)
RelativeRange(index, offset) ==
    [RelativeConfigIndex |-> index, RowsOffset |-> offset]

ImportConfig(table, sheet, range, rel, header, stop, varchar) ==
    [TableName |-> table, Sheet |-> sheet, Range |-> range,
     RelativeRange |-> rel, Header |-> header, StopAtEmpty |-> stop,
     AllVarchar |-> varchar]

DataReaderConfig(column, expression) ==
    [ColumnName |-> column, Expression |-> expression]

ExportConfig(table, readers) ==
    [TableName |-> table, ReaderConfigs |-> readers]

PlatformConfig(imports, exports) ==
    [ImportConfigs |-> imports, ExportConfigs |-> exports]

\* the zero value of config.PlatformConfig
ZeroPlatformConfig == PlatformConfig(<<>>, <<>>)

Quoted(s) == <<"'">> \o s \o <<"'">>

\* an option string that spells out the flags that are not set
ToOptionStringWithDefaults(p) ==
    (IF p.Header THEN <<"h", "e", "a", "d", "e", "r", "=", "t", "r", "u", "e", ",">>
     ELSE <<"h", "e", "a", "d", "e", "r", "=", "f", "a", "l", "s", "e", ",">>)
    \o (IF p.StopAtEmpty
        THEN <<"s", "t", "o", "p", "_", "a", "t", "_", "e", "m", "p", "t",
               "y", "=", "t", "r", "u", "e", ",">>
        ELSE <<"s", "t", "o", "p", "_", "a", "t", "_", "e", "m", "p", "t",
               "y", "=", "f", "a", "l", "s", "e", ",">>)
    \o (IF p.AllVarchar
        THEN <<"a", "l", "l", "_", "v", "a", "r", "c", "h", "a", "r", "=",
               "t", "r", "u", "e", ",">>
        ELSE <<"a", "l", "l", "_", "v", "a", "r", "c", "h", "a", "r", "=",
               "f", "a", "l", "s", "e", ",">>)
    \o <<"s", "h", "e", "e", "t", "=">> \o Quoted(p.Sheet) \o <<",">>
    \o <<"r", "a", "n", "g", "e", "=">> \o Quoted(p.Range)

ToOptionString(p) ==
    (IF p.Header
     THEN <<"h", "e", "a", "d", "e", "r", "=", "t", "r", "u", "e", ",">>
     ELSE <<>>)
    \o (IF p.StopAtEmpty
        THEN <<"s", "t", "o", "p", "_", "a", "t", "_", "e", "m", "p", "t", "y",
               "=", "t", "r", "u", "e", ",">>
        ELSE <<>>)
    \o (IF p.AllVarchar
        THEN <<"a", "l", "l", "_", "v", "a", "r", "c", "h", "a", "r",
               "=", "t", "r", "u", "e", ",">>
        ELSE <<>>)
    \o (IF p.Sheet # <<>>
        THEN <<"s", "h", "e", "e", "t", "=">> \o Quoted(p.Sheet) \o <<",">>
        ELSE <<>>)
    \o (IF p.Range # <<>>
        THEN <<"r", "a", "n", "g", "e", "=">> \o Quoted(p.Range)
        ELSE <<>>)

\* a table name that is lower-cased as a whole
GetTableNameLowered(p, platform) ==
    IF p.TableName # <<>> THEN p.TableName
    ELSE ToLower(<<"p", "a", "y", "o", "u", "t", "_">> \o platform \o <<"_">>
                 \o ReplaceAll(p.Sheet, " ", "_") \o <<"_">>
                 \o ReplaceAll(p.Range, ":", "_"))

\* ImportConfig.GetTableName
GetTableName(p, platform) ==
    IF p.TableName # <<>> THEN p.TableName
    ELSE <<"p", "a", "y", "o", "u", "t", "_">> \o ToLower(platform) \o <<"_">>
         \o ReplaceAll(p.Sheet, " ", "_") \o <<"_">>
         \o ReplaceAll(p.Range, ":", "_")

\* ExportConfig.GetTableName
ExportTableName(p, platform) == p.TableName

(***************************************************************************)
(* The environment: Paperless documents, their tags and spreadsheet files. *)
(* A spreadsheet is one column of cells, by row; 0 is an empty row.        *)
(***************************************************************************)
Docs == {1, 2, 3}

Swiggy == <<"S", "w", "i", "g", "g", "y">>

Misc == <<"m", "i", "s", "c">>

SwiggyTagID == 1

MiscTagID == 2

\* Server.tagIDs: tag name -> tag id, as fetched from Paperless at start-up
tagIDs == (Swiggy :> SwiggyTagID) @@ (Misc :> MiscTagID)

\* paperless.Document.Tags
DocTags(d) == IF d = 3 THEN {MiscTagID} ELSE {SwiggyTagID}

\* paperless.Metadata.MediaFilename
MediaFilename(d) ==
    CASE d = 1 -> <<"1", ".", "x", "l", "s", "x">>
      [] d = 2 -> <<"2", ".", "X", "L", "S">>
      [] OTHER -> <<"3", ".", "p", "d", "f">>

\* the cells of the document's sheet, row 1 first
Files(d) ==
    CASE d = 1 -> <<9, 7, 9, 10, 20, 0, 9, 5>>
      [] d = 2 -> <<9, 3, 9, 0, 4, 0, 6, 8>>
      [] OTHER -> <<>>

(***************************************************************************)
(* DuckDB: read_xlsx, the platform tables and the queries on them.         *)
(***************************************************************************)
\* the cells of a sequence up to (not including) the first empty one
RECURSIVE UntilEmpty(_)
UntilEmpty(cells) ==
    IF cells = <<>> \/ Head(cells) = 0 THEN <<>>
    ELSE <<Head(cells)>> \o UntilEmpty(Tail(cells))

Max(a, b) == IF a >= b THEN a ELSE b

Min(a, b) == IF a <= b THEN a ELSE b

\* read_xlsx(file, header=, stop_at_empty=, range=): the data rows of the
\* region, or a failure for a range text DuckDB cannot use
ReadXlsx(cells, p) ==
    LET parsed == NewRange(p.Range)
        whole == p.Range = <<>>
        first == IF whole THEN 1 ELSE Max(1, parsed.range.Start.Row)
        last == IF whole \/ parsed.range.End.Row = 0 THEN Len(cells)
                ELSE Min(parsed.range.End.Row, Len(cells))
        region == SubSeq(cells, first, last)
        data == IF p.Header /\ region # <<>> THEN Tail(region) ELSE region
    IN IF ~whole /\ (~parsed.ok \/ parsed.range.Start.Row < 0
                     \/ (parsed.range.End.Row > 0
                         /\ parsed.range.Start.Row > parsed.range.End.Row))
       THEN [ok |-> FALSE, rows |-> <<>>]
       ELSE [ok |-> TRUE,
             rows |-> IF p.StopAtEmpty \/ whole THEN UntilEmpty(data) ELSE data]

\* SELECT docID as document_id, * FROM read_xlsx(...)
RECURSIVE TaggedRows(_, _)
TaggedRows(docID, rows) ==
    IF rows = <<>> THEN <<>>
    ELSE <<[document_id |-> docID, amount |-> Head(rows)]>>
         \o TaggedRows(docID, Tail(rows))

\* a read of a table that leaves out the WHERE clause
RowsOfAnyDocument(rows, docID) == rows

\* the rows of a table WHERE document_id = docID, in stored order
RECURSIVE RowsOf(_, _)
RowsOf(rows, docID) ==
    IF rows = <<>> THEN <<>>
    ELSE IF Head(rows).document_id = docID
         THEN <<Head(rows)>> \o RowsOf(Tail(rows), docID)
         ELSE RowsOf(Tail(rows), docID)

\* a count that leaves out the document_id filter
CountRowsOfTable(db, table, docID) == Len(db[table])

\* SELECT COUNT(1) FROM table WHERE document_id = docID
CountRows(db, table, docID) == Len(RowsOf(db[table], docID))

RECURSIVE SumAmount(_)
SumAmount(rows) ==
    IF rows = <<>> THEN 0 ELSE Head(rows).amount + SumAmount(Tail(rows))

(***************************************************************************)
(* Error values: the chain of messages fmt.Errorf builds, outermost first. *)
(* A part is a fixed text, the range text a parse error quotes, or the     *)
(* driver's own error.                                                     *)
(***************************************************************************)
Msg(text) == [kind |-> "text", v |-> text]

RangeArg(text) == [kind |-> "range", v |-> text]

DriverError == [kind |-> "driver", v |-> "duckdb"]

(***************************************************************************)
(* Relative range resolver (DB.GetRangeEnd and its use).                   *)
(***************************************************************************)
\* a resolver that forgets the header flag (db.go lines 207-209 left out)
RangeEndIgnoringHeader(option, rangeStartObj, rowCount) ==
    Range(rangeStartObj.Start,
          Cell(rangeStartObj.End.Column, rangeStartObj.Start.Row + rowCount))

\* DB.GetRangeEnd once the anchor's rows are counted: the anchor's range
\* with its end row filled in
RangeEndFromCount(option, rangeStartObj, rowCount) ==
    LET adjusted == IF ~option.Header THEN rowCount - 1 ELSE rowCount
        lastCell == Cell(rangeStartObj.End.Column,
                         rangeStartObj.Start.Row + adjusted)
    IN Range(rangeStartObj.Start, lastCell)

\* a resolver that counts the anchor's rows whether or not the declared
\* range has an end row (db.go lines 193-195 left out)
GetRangeEndAlwaysCounting(db, docID, platform, option, queryOk) ==
    LET parsed == NewRange(option.Range)
        table == GetTableName(option, platform)
    IN IF ~parsed.ok
       THEN [ok |-> FALSE, range |-> ZeroRange, counted |-> FALSE,
             err |-> <<Msg("failed to parse range"), Msg(parsed.err),
                       RangeArg(option.Range)>>]
       ELSE IF table \notin DOMAIN db \/ ~queryOk
       THEN [ok |-> FALSE, range |-> ZeroRange, counted |-> TRUE,
             err |-> <<Msg("failed to query platform table"), DriverError>>]
       ELSE [ok |-> TRUE, counted |-> TRUE, err |-> <<>>,
             range |-> RangeEndFromCount(option, parsed.range,
                                         CountRows(db, table, docID))]

\* DB.GetRangeEnd(docID, platform, option) on the tables db; queryOk is
\* whether the COUNT query runs without error.  counted says whether the
\* query was issued at all.
GetRangeEnd(db, docID, platform, option, queryOk) ==
    LET parsed == NewRange(option.Range)
        table == GetTableName(option, platform)
    IN IF ~parsed.ok
       THEN [ok |-> FALSE, range |-> ZeroRange, counted |-> FALSE,
             err |-> <<Msg("failed to parse range"), Msg(parsed.err),
                       RangeArg(option.Range)>>]
       ELSE IF parsed.range.End.Row > 0
       THEN [ok |-> TRUE, range |-> parsed.range, counted |-> FALSE,
             err |-> <<>>]
       ELSE IF option.Range # <<>>
       THEN IF table \notin DOMAIN db \/ ~queryOk
            THEN [ok |-> FALSE, range |-> ZeroRange, counted |-> TRUE,
                  err |-> <<Msg("failed to query platform table"),
                            DriverError>>]
            ELSE [ok |-> TRUE, counted |-> TRUE, err |-> <<>>,
                  range |-> RangeEndFromCount(option, parsed.range,
                                              CountRows(db, table, docID))]
       ELSE [ok |-> TRUE, range |-> ZeroRange, counted |-> FALSE,
             err |-> <<>>]

\* an effective range built from the resolved range of the anchor
ShiftedRangeFromResolved(declared, relativeRangeEnd, rowsOffset) ==
    LET currentRange == NewRange(declared) IN
    IF ~currentRange.ok
    THEN [ok |-> FALSE, text |-> <<>>,
          err |-> <<Msg(currentRange.err), RangeArg(declared)>>]
    ELSE [ok |-> TRUE, err |-> <<>>,
          text |-> RangeString(
              [relativeRangeEnd EXCEPT
                  !.Start.Row = relativeRangeEnd.End.Row + rowsOffset])]

\* db.go lines 151-156: the anchor's declared range with its start row
\* replaced by the resolved end row plus the offset
ShiftedRange(declared, relativeRangeEnd, rowsOffset) ==
    LET currentRange == NewRange(declared) IN
    IF ~currentRange.ok
    THEN [ok |-> FALSE, text |-> <<>>,
          err |-> <<Msg(currentRange.err), RangeArg(declared)>>]
    ELSE [ok |-> TRUE, err |-> <<>>,
          text |-> RangeString(
              [currentRange.range EXCEPT
                  !.Start.Row = relativeRangeEnd.End.Row + rowsOffset])]

(***************************************************************************)
(* Record projection and merge (DB.GetPlatformExcelRows).                  *)
(***************************************************************************)
Fields == {"gross_sales_amt", "marketing_ads_amt", "final_payout_amt"}

\* the zero value of accounting.PayoutInput
ZeroPayoutInput == [f \in Fields |-> 0]

Aggregates == {"sum(amount)", "count(*)"}

\* the value of one expression over the document's rows of the table
Eval(expression, rows) ==
    CASE expression = "sum(amount)" -> SumAmount(rows)
      [] expression = "count(*)" -> Len(rows)
      [] OTHER -> Head(rows).amount

\* whether the SELECT of an export returns a row for these rows: an
\* aggregate always does, a plain column only when the document has rows
HasRow(exportConfig, rows) ==
    \/ rows # <<>>
    \/ \A i \in 1..Len(exportConfig.ReaderConfigs) :
          exportConfig.ReaderConfigs[i].Expression \in Aggregates

\* the decoded row of SELECT { col: expr, ... } for the document; a NULL
\* (sum over no rows) and a missing row leave no entry
JsonMap(exportConfig, rows) ==
    LET rc == exportConfig.ReaderConfigs
        live == {i \in 1..Len(rc) :
                    /\ HasRow(exportConfig, rows)
                    /\ (rows # <<>> \/ rc[i].Expression = "count(*)")}
        cols == {rc[i].ColumnName : i \in live}
    IN [c \in cols |->
          Eval(rc[CHOOSE i \in live : rc[i].ColumnName = c].Expression,
               rows)]

\* a merge in which the first export to set a field keeps it
ScanKeepingFirst(payoutInput, jsonMap) ==
    [f \in Fields |->
        IF f \in DOMAIN jsonMap /\ payoutInput[f] = 0
        THEN jsonMap[f] ELSE payoutInput[f]]

\* duckdb.Composite[PayoutInput].Scan(jsonMap): fields named in the map are
\* overwritten, the others keep their value
ScanInto(payoutInput, jsonMap) ==
    [f \in Fields |->
        IF f \in DOMAIN jsonMap THEN jsonMap[f] ELSE payoutInput[f]]

\* position (0-based) of the first export config at or after j that has
\* reader configs; Len when there is none
NextExport(options, j) ==
    LET n == Len(options.ExportConfigs)
        live == {k \in j..(n - 1) :
                    options.ExportConfigs[k + 1].ReaderConfigs # <<>>}
    IN IF live = {} THEN n
       ELSE CHOOSE k \in live : \A k2 \in live : k <= k2

(***************************************************************************)
(* The payout configurations the server may be started with (the JSON     *)
(* file of PAYOUT_EXCEL_DUCKDB_CONFIG_PATH), for the platform Swiggy.     *)
(***************************************************************************)
NoRelative == RelativeRange(0, 0)

SummaryImport ==
    ImportConfig(<<"s", "m">>, <<>>, <<"A", "1", ":", "B", "2">>,
                 NoRelative, TRUE, FALSE, FALSE)

\* a stacked sheet: the orders block is the anchor (header row 3), its
\* table name is derived; the ads block starts two rows below its end
StackedConfig ==
    PlatformConfig(
        <<SummaryImport,
          ImportConfig(<<>>, <<"O", " ", "L">>, <<"A", "3", ":", "B">>,
                       NoRelative, TRUE, TRUE, FALSE),
          ImportConfig(<<"a", "d">>, <<>>, <<>>,
                       RelativeRange(1, 2), TRUE, FALSE, FALSE)>>,
        <<ExportConfig(<<"s", "m">>,
              <<DataReaderConfig("gross_sales_amt", "sum(amount)"),
                DataReaderConfig("final_payout_amt", "sum(amount)")>>),
          ExportConfig(<<"a", "d">>,
              <<DataReaderConfig("final_payout_amt", "sum(amount)"),
                DataReaderConfig("marketing_ads_amt", "count(*)")>>)>>)

\* the anchor has no header row and a table name of its own; the dependent
\* block's table name is derived; the exports name disjoint columns, one
\* export has no reader configs and one reads a plain column
HeaderlessConfig ==
    PlatformConfig(
        <<SummaryImport,
          ImportConfig(<<"o", "d">>, <<>>, <<"A", "4", ":", "B">>,
                       NoRelative, FALSE, TRUE, FALSE),
          ImportConfig(<<>>, <<"X">>, <<>>,
                       RelativeRange(1, 1), FALSE, TRUE, FALSE)>>,
        <<ExportConfig(<<"s", "m">>,
              <<DataReaderConfig("gross_sales_amt", "sum(amount)")>>),
          ExportConfig(<<"z", "z">>, <<>>),
          ExportConfig(<<"o", "d">>,
              <<DataReaderConfig("final_payout_amt", "amount")>>)>>)

\* the second config names an anchor position past the end of the list
DanglingConfig ==
    PlatformConfig(
        <<SummaryImport,
          ImportConfig(<<"a", "d">>, <<>>, <<>>,
                       RelativeRange(2, 0), TRUE, FALSE, FALSE)>>,
        <<ExportConfig(<<"s", "m">>,
              <<DataReaderConfig("gross_sales_amt", "sum(amount)")>>)>>)

\* the anchor's declared range has an end row; the block that depends on
\* it has a declared range of its own and a derived table name, and is in
\* turn the anchor of the last config
ChainedConfig ==
    PlatformConfig(
        <<SummaryImport,
          ImportConfig(<<"o", "d">>, <<>>, <<"A", "3", ":", "B", "5">>,
                       NoRelative, TRUE, TRUE, FALSE),
          ImportConfig(<<>>, <<"X">>, <<"A", "1", ":", "B">>,
                       RelativeRange(1, 0), FALSE, FALSE, FALSE),
          ImportConfig(<<"a", "d">>, <<>>, <<>>,
                       RelativeRange(2, 0), TRUE, FALSE, FALSE)>>,
        <<ExportConfig(<<"s", "m">>,
              <<DataReaderConfig("gross_sales_amt", "sum(amount)")>>)>>)

\* the second config names its own position as its anchor and stores into
\* the table of the first
SelfAnchoredConfig ==
    PlatformConfig(
        <<SummaryImport,
          ImportConfig(<<"s", "m">>, <<>>, <<"A", "3", ":", "B">>,
                       RelativeRange(1, 0), TRUE, TRUE, FALSE)>>,
        <<ExportConfig(<<"s", "m">>,
              <<DataReaderConfig("gross_sales_amt", "sum(amount)")>>)>>)

PayoutConfigs ==
    {StackedConfig, HeaderlessConfig, DanglingConfig, ChainedConfig,
     SelfAnchoredConfig}

(***************************************************************************)
(* State.                                                                  *)
(***************************************************************************)
VARIABLES
    duckDBConfigs,         \* Server.duckDBConfigs: tag id -> PlatformConfig
    processed_documents,   \* the paperless_id column of processed_documents
    tables,                \* platform tables: name -> stored rows
    payouts,               \* payouts created in the accounting system
    crashed,               \* the server process died of a panic
    runs,                  \* payout webhooks accepted so far
    pc,                    \* position of each processPayout goroutine
    docID,                 \* its document id
    platform,              \* its selected platform name
    option,                \* its selected PlatformConfig
    importIdx,             \* position in option.ImportConfigs (0-based)
    importConfig,          \* the loop's copy of the current import config
    exportIdx,             \* position in option.ExportConfigs (0-based)
    payoutInput,           \* the record being merged
    err,                   \* the error the engine returned to processPayout
    result,                \* how the run ended
    inserted,              \* the inserts of the run that took effect, in order
    arg,                   \* the argument of a library call under test
    ret                    \* what the calls made on it so far returned

vars ==
    <<duckDBConfigs, processed_documents, tables, payouts, crashed, runs,
      pc, docID, platform, option, importIdx, importConfig, exportIdx,
      payoutInput, err, result, inserted, arg, ret>>

Procs == {1, 2}

\* no library call under test
NoCall == [fn |-> "none"]

ZeroImportConfig ==
    ImportConfig(<<>>, <<>>, <<>>, NoRelative, FALSE, FALSE, FALSE)

Init ==
    /\ duckDBConfigs \in {(SwiggyTagID :> c) : c \in PayoutConfigs}
    /\ processed_documents = <<>>
    /\ tables = [t \in {} |-> <<>>]
    /\ payouts = <<>>
    /\ crashed = FALSE
    /\ runs = 0
    /\ pc = [p \in Procs |-> "idle"]
    /\ docID = [p \in Procs |-> 0]
    /\ platform = [p \in Procs |-> <<>>]
    /\ option = [p \in Procs |-> ZeroPlatformConfig]
    /\ importIdx = [p \in Procs |-> 0]
    /\ importConfig = [p \in Procs |-> ZeroImportConfig]
    /\ exportIdx = [p \in Procs |-> 0]
    /\ payoutInput = [p \in Procs |-> ZeroPayoutInput]
    /\ err = [p \in Procs |-> <<>>]
    /\ result = [p \in Procs |-> ""]
    /\ inserted = [p \in Procs |-> <<>>]
    /\ arg = NoCall
    /\ ret = NoCall

(***************************************************************************)
(* Helpers of the actions.                                                 *)
(***************************************************************************)
\* processPayout line 507: an Excel file of a configured platform
IsExcel(d) ==
    \/ HasSuffix(ToLower(MediaFilename(d)), <<".", "x", "l", "s", "x">>)
    \/ HasSuffix(ToLower(MediaFilename(d)), <<".", "x", "l", "s">>)

\* processPayout lines 486-501: the candidates of the walk over the tagIDs
\* map, whose iteration order Go leaves unspecified
SelectPlatform(tags) ==
    LET hits == {name \in DOMAIN tagIDs :
                    /\ tagIDs[name] \in tags
                    /\ tagIDs[name] \in DOMAIN duckDBConfigs}
    IN IF hits = {}
       THEN {[platform |-> <<>>, option |-> ZeroPlatformConfig]}
       ELSE {[platform |-> name, option |-> duckDBConfigs[tagIDs[name]]] :
                name \in hits}

\* a loop that resolves every config, the ones with index 0 against the
\* first entry
LoopHeadAlwaysResolving(options, i) ==
    IF i < Len(options.ImportConfigs)
    THEN [pc |-> "resolve", importConfig |-> options.ImportConfigs[i + 1],
          exportIdx |-> 0]
    ELSE LET k == NextExport(options, 0) IN
         [pc |-> IF k < Len(options.ExportConfigs) THEN "project" ELSE "payout",
          importConfig |-> ZeroImportConfig, exportIdx |-> k]

\* where the run stands once the import loop reaches position i: at the
\* head of config i, or past the loop at the first export, or at the payout
LoopHead(options, i) ==
    IF i < Len(options.ImportConfigs)
    THEN LET c == options.ImportConfigs[i + 1] IN
         [pc |-> IF c.RelativeRange.RelativeConfigIndex > 0
                 THEN "resolve" ELSE "create",
          importConfig |-> c, exportIdx |-> 0]
    ELSE LET k == NextExport(options, 0) IN
         [pc |-> IF k < Len(options.ExportConfigs) THEN "project" ELSE "payout",
          importConfig |-> ZeroImportConfig, exportIdx |-> k]

\* the goroutine returns: its locals are gone; how it ended, the error it
\* logged and the loop positions it reached stay on record
Return(p, how, e) ==
    /\ pc' = [pc EXCEPT ![p] = "done"]
    /\ result' = [result EXCEPT ![p] = how]
    /\ err' = [err EXCEPT ![p] = e]
    /\ platform' = [platform EXCEPT ![p] = <<>>]
    /\ option' = [option EXCEPT ![p] = ZeroPlatformConfig]
    /\ importConfig' = [importConfig EXCEPT ![p] = ZeroImportConfig]
    /\ payoutInput' = [payoutInput EXCEPT ![p] = ZeroPayoutInput]

\* a loop that steps over the config that follows the one just handled
AdvanceSkipping(p, i) ==
    LET h == LoopHead(option[p], i + 1) IN
    /\ pc' = [pc EXCEPT ![p] = h.pc]
    /\ importIdx' = [importIdx EXCEPT ![p] = i + 1]
    /\ importConfig' = [importConfig EXCEPT ![p] = h.importConfig]
    /\ exportIdx' = [exportIdx EXCEPT ![p] = h.exportIdx]

\* the import loop moves to position i
Advance(p, i) ==
    LET h == LoopHead(option[p], i) IN
    /\ pc' = [pc EXCEPT ![p] = h.pc]
    /\ importIdx' = [importIdx EXCEPT ![p] = i]
    /\ importConfig' = [importConfig EXCEPT ![p] = h.importConfig]
    /\ exportIdx' = [exportIdx EXCEPT ![p] = h.exportIdx]

\* the run's insert into table took effect
Inserted(p, table, rows) ==
    inserted' = [inserted EXCEPT
                    ![p] = Append(@, [idx |-> importIdx[p], table |-> table,
                                      rows |-> rows])]

\* CREATE TABLE IF NOT EXISTS
CreateIfNotExists(db, table) ==
    IF table \in DOMAIN db THEN db ELSE (table :> <<>>) @@ db

\* an insert that replaces the content of the table
InsertReplacing(db, table, rows) == [db EXCEPT ![table] = rows]

\* INSERT INTO table SELECT ...
InsertInto(db, table, rows) == [db EXCEPT ![table] = @ \o rows]

(***************************************************************************)
(* Server.handlePayouts: a valid webhook starts a processPayout goroutine. *)
(* Goroutines have no identity: the lowest free slot is taken.             *)
(***************************************************************************)
FreeSlots == {p \in Procs : pc[p] \in {"idle", "done"}}

HandlePayouts(p, d) ==
    /\ UNCHANGED <<arg, ret>>
    /\ ~crashed
    /\ p \in FreeSlots
    /\ \A q \in FreeSlots : p <= q
    /\ runs < MaxRuns
    /\ runs' = runs + 1
    /\ pc' = [pc EXCEPT ![p] = "start"]
    /\ docID' = [docID EXCEPT ![p] = d]
    /\ platform' = [platform EXCEPT ![p] = <<>>]
    /\ option' = [option EXCEPT ![p] = ZeroPlatformConfig]
    /\ importIdx' = [importIdx EXCEPT ![p] = 0]
    /\ importConfig' = [importConfig EXCEPT ![p] = ZeroImportConfig]
    /\ exportIdx' = [exportIdx EXCEPT ![p] = 0]
    /\ payoutInput' = [payoutInput EXCEPT ![p] = ZeroPayoutInput]
    /\ err' = [err EXCEPT ![p] = <<>>]
    /\ result' = [result EXCEPT ![p] = ""]
    /\ inserted' = [inserted EXCEPT ![p] = <<>>]
    /\ UNCHANGED <<duckDBConfigs, processed_documents, tables, payouts,
                   crashed>>

(***************************************************************************)
(* Server.processPayout, lines 462-507: the processed check, the document  *)
(* and its metadata, the platform selection.  checkOk, docOk and metaOk    *)
(* are whether the query and the two Paperless calls succeed.              *)
(***************************************************************************)
\* DB.IsDocumentProcessed: COUNT(1) > 0
IsDocumentProcessed(id) ==
    \E i \in 1..Len(processed_documents) : processed_documents[i] = id

\* line 466: err == nil && processed
SkipsDocument(checkOk, id) == checkOk /\ IsDocumentProcessed(id)

ProcessPayoutStart(p) ==
    /\ UNCHANGED <<arg, ret>>
    /\ ~crashed
    /\ pc[p] = "start"
    /\ \E checkOk \in BOOLEAN, docOk \in BOOLEAN, metaOk \in BOOLEAN :
        \E sel \in SelectPlatform(DocTags(docID[p])) :
          LET h == LoopHead(sel.option, 0) IN
          IF SkipsDocument(checkOk, docID[p])
          THEN /\ Return(p, "skipped", <<>>)
               /\ UNCHANGED <<importIdx, exportIdx>>
          ELSE IF ~docOk \/ ~metaOk
          THEN /\ Return(p, "fetch failed", <<>>)
               /\ UNCHANGED <<importIdx, exportIdx>>
          ELSE IF ~(IsExcel(docID[p]) /\ sel.platform # <<>>)
          THEN /\ Return(p, "not excel", <<>>)
               /\ UNCHANGED <<importIdx, exportIdx>>
          ELSE /\ pc' = [pc EXCEPT ![p] = h.pc]
               /\ platform' = [platform EXCEPT ![p] = sel.platform]
               /\ option' = [option EXCEPT ![p] = sel.option]
               /\ importIdx' = [importIdx EXCEPT ![p] = 0]
               /\ importConfig' = [importConfig EXCEPT ![p] = h.importConfig]
               /\ exportIdx' = [exportIdx EXCEPT ![p] = h.exportIdx]
               /\ UNCHANGED <<err, result, payoutInput>>
    /\ UNCHANGED <<duckDBConfigs, processed_documents, tables, payouts,
                   crashed, runs, docID, inserted>>

(***************************************************************************)
(* DB.ProcessPlatformExcel, lines 145-157: the effective range of a        *)
(* dependent config.  An anchor position past the end of the list is an    *)
(* index out of range: the goroutine panics and the process dies.          *)
(***************************************************************************)
\* line 146: options.ImportConfigs[index] is within the slice
InBounds(index, configs) == index < Len(configs)

\* a resolver that stores the effective range in the configuration itself
\* (options.ImportConfigs[i].Range = ... instead of the loop's copy)
ResolveRelativeRangeInPlace(p) ==
    /\ UNCHANGED <<arg, ret>>
    /\ ~crashed
    /\ pc[p] = "resolve"
    /\ InBounds(importConfig[p].RelativeRange.RelativeConfigIndex,
                option[p].ImportConfigs)
    /\ LET rel == importConfig[p].RelativeRange
           relativeOption == option[p].ImportConfigs[rel.RelativeConfigIndex + 1]
           relativeRangeEnd == GetRangeEnd(tables, docID[p], platform[p],
                                           relativeOption, TRUE)
           current == ShiftedRange(relativeOption.Range,
                                   relativeRangeEnd.range, rel.RowsOffset)
           written == [option[p] EXCEPT
                          !.ImportConfigs[importIdx[p] + 1].Range =
                              current.text]
       IN /\ relativeRangeEnd.ok
          /\ current.ok
          /\ importConfig' = [importConfig EXCEPT ![p].Range = current.text]
          /\ option' = [option EXCEPT ![p] = written]
          /\ duckDBConfigs' = [t \in DOMAIN duckDBConfigs |-> written]
          /\ pc' = [pc EXCEPT ![p] = "create"]
    /\ UNCHANGED <<processed_documents, tables, payouts, crashed, runs,
                   docID, importIdx, exportIdx, inserted, err, result,
                   platform, payoutInput>>

ResolveRelativeRange(p) ==
    /\ UNCHANGED <<arg, ret>>
    /\ ~crashed
    /\ pc[p] = "resolve"
    /\ LET rel == importConfig[p].RelativeRange
           configs == option[p].ImportConfigs
       IN IF ~InBounds(rel.RelativeConfigIndex, configs)
          THEN /\ crashed' = TRUE
               /\ UNCHANGED <<pc, err, result, platform, option, importConfig,
                              payoutInput>>
          ELSE \E queryOk \in BOOLEAN :
            LET relativeOption == configs[rel.RelativeConfigIndex + 1]
                relativeRangeEnd ==
                    GetRangeEnd(tables, docID[p], platform[p], relativeOption,
                                queryOk)
                current == ShiftedRange(relativeOption.Range,
                                        relativeRangeEnd.range, rel.RowsOffset)
            IN /\ crashed' = crashed
               /\ IF ~relativeRangeEnd.ok
                  THEN Return(p, "ingest failed",
                              <<Msg("failed to get relative range end")>>
                              \o relativeRangeEnd.err)
                  ELSE IF ~current.ok
                  THEN Return(p, "ingest failed",
                              <<Msg("failed to create current range")>>
                              \o current.err)
                  ELSE /\ importConfig' =
                              [importConfig EXCEPT ![p].Range = current.text]
                       /\ pc' = [pc EXCEPT ![p] = "create"]
                       /\ UNCHANGED <<err, result, platform, option,
                                      payoutInput>>
    /\ UNCHANGED <<duckDBConfigs, processed_documents, tables, payouts, runs,
                   docID, importIdx, exportIdx, inserted>>

(***************************************************************************)
(* DB.ProcessPlatformExcel, lines 159-168: CREATE TABLE IF NOT EXISTS.     *)
(* execOk is whether DuckDB runs the statement without error.              *)
(***************************************************************************)
CreateTable(p) ==
    /\ UNCHANGED <<arg, ret>>
    /\ ~crashed
    /\ pc[p] = "create"
    /\ LET tableName == GetTableName(importConfig[p], platform[p])
           read == ReadXlsx(Files(docID[p]), importConfig[p])
       IN \E execOk \in (IF read.ok THEN BOOLEAN ELSE {FALSE}) :
            IF execOk
            THEN /\ tables' = CreateIfNotExists(tables, tableName)
                 /\ pc' = [pc EXCEPT ![p] = "insert"]
                 /\ UNCHANGED <<err, result, platform, option, importConfig,
                                payoutInput>>
            ELSE /\ Return(p, "ingest failed",
                           <<Msg("failed to create platform table"),
                             DriverError>>)
                 /\ UNCHANGED tables
    /\ UNCHANGED <<duckDBConfigs, processed_documents, payouts, crashed, runs,
                   docID, importIdx, exportIdx, inserted>>

(***************************************************************************)
(* DB.ProcessPlatformExcel, lines 170-173: INSERT ... BY NAME.  On success *)
(* the loop moves to the next config; on failure the fallback is next.     *)
(***************************************************************************)
\* a name-based insert whose rows stay in the table when it fails
InsertByNameKeepingRows(p) ==
    /\ UNCHANGED <<arg, ret>>
    /\ ~crashed
    /\ pc[p] = "insert"
    /\ LET tableName == GetTableName(importConfig[p], platform[p])
           read == ReadXlsx(Files(docID[p]), importConfig[p])
           rows == TaggedRows(docID[p], read.rows)
       IN /\ tables' = InsertInto(tables, tableName, rows)
          /\ pc' = [pc EXCEPT ![p] = "fallback"]
    /\ UNCHANGED <<duckDBConfigs, processed_documents, payouts, crashed, runs,
                   docID, platform, option, payoutInput, err, result,
                   inserted, importIdx, importConfig, exportIdx>>

InsertByName(p) ==
    /\ UNCHANGED <<arg, ret>>
    /\ ~crashed
    /\ pc[p] = "insert"
    /\ LET tableName == GetTableName(importConfig[p], platform[p])
           read == ReadXlsx(Files(docID[p]), importConfig[p])
           rows == TaggedRows(docID[p], read.rows)
       IN \E execOk \in (IF read.ok THEN BOOLEAN ELSE {FALSE}) :
            IF execOk
            THEN /\ tables' = InsertInto(tables, tableName, rows)
                 /\ Inserted(p, tableName, rows)
                 /\ Advance(p, importIdx[p] + 1)
            ELSE /\ pc' = [pc EXCEPT ![p] = "fallback"]
                 /\ UNCHANGED <<tables, inserted, importIdx, importConfig,
                                exportIdx>>
    /\ UNCHANGED <<duckDBConfigs, processed_documents, payouts, crashed, runs,
                   docID, platform, option, payoutInput, err, result>>

\* the rows of a table that belong to other documents
RECURSIVE RowsOfOthers(_, _)
RowsOfOthers(rows, id) ==
    IF rows = <<>> THEN <<>>
    ELSE (IF Head(rows).document_id = id THEN <<>> ELSE <<Head(rows)>>)
         \o RowsOfOthers(Tail(rows), id)

\* a positional insert whose failure is passed over: the loop goes on with
\* the next config
InsertFallbackPassingOver(p) ==
    /\ UNCHANGED <<arg, ret>>
    /\ ~crashed
    /\ pc[p] = "fallback"
    /\ LET tableName == GetTableName(importConfig[p], platform[p])
           read == ReadXlsx(Files(docID[p]), importConfig[p])
           rows == TaggedRows(docID[p], read.rows)
       IN \E execOk \in (IF read.ok THEN BOOLEAN ELSE {FALSE}) :
            /\ tables' = IF execOk THEN InsertInto(tables, tableName, rows)
                         ELSE tables
            /\ Inserted(p, tableName, IF execOk THEN rows ELSE <<>>)
            /\ Advance(p, importIdx[p] + 1)
    /\ UNCHANGED <<duckDBConfigs, processed_documents, payouts, crashed, runs,
                   docID, err, result, platform, option, payoutInput>>

\* a positional insert that, when it fails, rolls the run's ingestion back
InsertFallbackRollingBack(p) ==
    /\ UNCHANGED <<arg, ret>>
    /\ ~crashed
    /\ pc[p] = "fallback"
    /\ LET tableName == GetTableName(importConfig[p], platform[p])
           read == ReadXlsx(Files(docID[p]), importConfig[p])
           rows == TaggedRows(docID[p], read.rows)
       IN \E execOk \in (IF read.ok THEN BOOLEAN ELSE {FALSE}) :
            IF execOk
            THEN /\ tables' = InsertInto(tables, tableName, rows)
                 /\ Inserted(p, tableName, rows)
                 /\ Advance(p, importIdx[p] + 1)
                 /\ UNCHANGED <<err, result, platform, option, payoutInput>>
            ELSE /\ Return(p, "ingest failed",
                           <<Msg("failed to insert excel data"), DriverError,
                             Msg("fallback error"), DriverError>>)
                 /\ tables' = [t \in DOMAIN tables |->
                                  RowsOfOthers(tables[t], docID[p])]
                 /\ UNCHANGED <<inserted, importIdx, exportIdx>>
    /\ UNCHANGED <<duckDBConfigs, processed_documents, payouts, crashed, runs,
                   docID>>

(***************************************************************************)
(* DB.ProcessPlatformExcel, lines 174-179: the positional insert.          *)
(***************************************************************************)
InsertFallback(p) ==
    /\ UNCHANGED <<arg, ret>>
    /\ ~crashed
    /\ pc[p] = "fallback"
    /\ LET tableName == GetTableName(importConfig[p], platform[p])
           read == ReadXlsx(Files(docID[p]), importConfig[p])
           rows == TaggedRows(docID[p], read.rows)
       IN \E execOk \in (IF read.ok THEN BOOLEAN ELSE {FALSE}) :
            IF execOk
            THEN /\ tables' = InsertInto(tables, tableName, rows)
                 /\ Inserted(p, tableName, rows)
                 /\ Advance(p, importIdx[p] + 1)
                 /\ UNCHANGED <<err, result, platform, option, payoutInput>>
            ELSE /\ Return(p, "ingest failed",
                           <<Msg("failed to insert excel data"), DriverError,
                             Msg("fallback error"), DriverError>>)
                 /\ UNCHANGED <<tables, inserted, importIdx, exportIdx>>
    /\ UNCHANGED <<duckDBConfigs, processed_documents, payouts, crashed, runs,
                   docID>>

(***************************************************************************)
(* DB.GetPlatformExcelRows, lines 228-243: one export config that has      *)
(* reader configs (those without are skipped by the loop).  The errors of  *)
(* both Scan calls are dropped by the code.                                *)
(***************************************************************************)
ProjectExport(p) ==
    /\ UNCHANGED <<arg, ret>>
    /\ ~crashed
    /\ pc[p] = "project"
    /\ LET exportConfig == option[p].ExportConfigs[exportIdx[p] + 1]
           tableName == ExportTableName(exportConfig, platform[p])
           exists == tableName \in DOMAIN tables
           rows == IF exists THEN RowsOf(tables[tableName], docID[p])
                   ELSE <<>>
           k == NextExport(option[p], exportIdx[p] + 1)
       IN \E queryOk \in (IF exists THEN BOOLEAN ELSE {FALSE}) :
            IF queryOk
            THEN /\ payoutInput' =
                       [payoutInput EXCEPT
                           ![p] = ScanInto(@, JsonMap(exportConfig, rows))]
                 /\ exportIdx' = [exportIdx EXCEPT ![p] = k]
                 /\ pc' = [pc EXCEPT
                              ![p] = IF k < Len(option[p].ExportConfigs)
                                     THEN "project" ELSE "payout"]
                 /\ UNCHANGED <<err, result, platform, option, importConfig>>
            ELSE /\ Return(p, "project failed",
                           <<Msg("failed to query platform table"),
                             DriverError>>)
                 /\ UNCHANGED exportIdx
    /\ UNCHANGED <<duckDBConfigs, processed_documents, tables, payouts,
                   crashed, runs, docID, importIdx, inserted>>

\* processPayout without the return of line 536: a failed CreatePayout is
\* logged and the run goes on to SaveDocument
CreatePayoutWithoutReturn(p) ==
    /\ UNCHANGED <<arg, ret>>
    /\ ~crashed
    /\ pc[p] = "payout"
    /\ \E callOk \in BOOLEAN :
         /\ payouts' = IF callOk
                       THEN Append(payouts, [document_id |-> docID[p],
                                             platform |-> platform[p],
                                             input |-> payoutInput[p]])
                       ELSE payouts
         /\ pc' = [pc EXCEPT ![p] = "save"]
    /\ UNCHANGED <<duckDBConfigs, processed_documents, tables, crashed, runs,
                   docID, importIdx, exportIdx, inserted, err, result,
                   platform, option, importConfig, payoutInput>>

(***************************************************************************)
(* Server.processPayout, lines 521-537: the amounts are adjusted and the   *)
(* payout is sent to the accounting system.                                *)
(***************************************************************************)
CreatePayout(p) ==
    /\ UNCHANGED <<arg, ret>>
    /\ ~crashed
    /\ pc[p] = "payout"
    /\ LET adjusted ==
             [payoutInput[p] EXCEPT
                 !["final_payout_amt"] = @ + payoutInput[p]["marketing_ads_amt"]]
       IN \E callOk \in BOOLEAN :
            IF callOk
            THEN /\ payouts' = Append(payouts,
                                      [document_id |-> docID[p],
                                       platform |-> platform[p],
                                       input |-> adjusted])
                 /\ payoutInput' = [payoutInput EXCEPT ![p] = adjusted]
                 /\ pc' = [pc EXCEPT ![p] = "save"]
                 /\ UNCHANGED <<err, result, platform, option, importConfig>>
            ELSE /\ Return(p, "payout failed", <<>>)
                 /\ UNCHANGED payouts
    /\ UNCHANGED <<duckDBConfigs, processed_documents, tables, crashed, runs,
                   docID, importIdx, exportIdx, inserted>>

(***************************************************************************)
(* Server.processPayout, lines 539-546, with DB.SaveDocument: the error of *)
(* the insert is assigned and never read.                                  *)
(***************************************************************************)
SaveDocument(p) ==
    /\ UNCHANGED <<arg, ret>>
    /\ ~crashed
    /\ pc[p] = "save"
    /\ \E execOk \in BOOLEAN :
         /\ processed_documents' =
                IF execOk THEN Append(processed_documents, docID[p])
                ELSE processed_documents
         /\ Return(p, IF execOk THEN "saved" ELSE "save failed", <<>>)
    /\ UNCHANGED <<duckDBConfigs, tables, payouts, crashed, runs, docID,
                   importIdx, exportIdx, inserted>>

Next ==
    \E p \in Procs :
        \/ \E d \in Docs : HandlePayouts(p, d)
        \/ ProcessPayoutStart(p)
        \/ ResolveRelativeRange(p)
        \/ CreateTable(p)
        \/ InsertByName(p)
        \/ InsertFallback(p)
        \/ ProjectExport(p)
        \/ CreatePayout(p)
        \/ SaveDocument(p)

Spec == Init /\ [][Next]_vars

(***************************************************************************)
(* Properties.                                                             *)
(***************************************************************************)
InImportLoop(p) == pc[p] \in {"resolve", "create", "insert", "fallback"}

Failed == {"ingest failed", "project failed", "payout failed"}

\* the goroutine p takes a step
Steps(p) ==
    \/ pc'[p] # pc[p]
    \/ importIdx'[p] # importIdx[p]
    \/ exportIdx'[p] # exportIdx[p]

\* C1: once a document id is in processed_documents, a processPayout run
\* for that id ends at the IsDocumentProcessed check: it returns without
\* entering ingestion and touches no table, no payout and no
\* processed_documents row.
C1_ProcessedDocumentStopsAtCheck ==
    [][\A p \in Procs :
          (pc[p] = "start" /\ pc'[p] # "start"
           /\ IsDocumentProcessed(docID[p]))
          => /\ pc'[p] = "done"
             /\ tables' = tables
             /\ payouts' = payouts
             /\ processed_documents' = processed_documents]_vars

\* C2: a processed_documents row is written only by a run whose ingestion,
\* projection and CreatePayout all succeeded; a run that fails in one of the
\* three ends there, writes no row and is not restarted except by a new
\* delivery, and a delivery for a document that is not recorded is not
\* skipped.
C2_SavedOnlyAfterAllSucceeded ==
    [][/\ \A p \in Procs :
            /\ (pc[p] # "done" /\ pc'[p] = "done" /\ result'[p] \in Failed)
               => processed_documents' = processed_documents
            /\ (pc[p] = "done" /\ pc'[p] # "done")
               => (runs' = runs + 1 /\ pc'[p] = "start")
            /\ (pc[p] = "start" /\ pc'[p] # "start"
                /\ ~IsDocumentProcessed(docID[p]))
               => result'[p] # "skipped"
       /\ processed_documents' # processed_documents
          => \E p \in Procs :
                /\ pc[p] = "save"
                /\ pc'[p] = "done"
                /\ processed_documents' =
                       Append(processed_documents, docID[p])
                /\ importIdx[p] = Len(option[p].ImportConfigs)
                /\ exportIdx[p] = Len(option[p].ExportConfigs)
                /\ \E i \in 1..Len(payouts) :
                      payouts[i].document_id = docID[p]]_vars

\* a run went through ingestion and projection, failed at CreatePayout and
\* left its document unrecorded
C2_Witness ==
    \E p \in Procs :
        /\ pc[p] = "done"
        /\ result[p] = "payout failed"
        /\ importIdx[p] = 3
        /\ ~IsDocumentProcessed(docID[p])

\* the effective range the code is to produce for a dependent config, from
\* the claim's formula: the anchor's declared range with the start row
\* anchor.start.row + N (+ offset), one less without a header row
ExpectedDependentRange(anchor, n, rowsOffset) ==
    LET declared == NewRange(anchor.Range).range
        startRow == declared.Start.Row
                    + (IF anchor.Header THEN n ELSE n - 1) + rowsOffset
    IN CellString(Cell(declared.Start.Column, startRow))
       \o <<":">> \o CellString(declared.End)

\* the resolver on an anchor with n stored rows, as the code runs it
ResolvedDependentRange(anchor, n, rowsOffset) ==
    ShiftedRange(anchor.Range,
                 RangeEndFromCount(anchor, NewRange(anchor.Range).range, n),
                 rowsOffset).text

ExampleAnchorWithHeader ==
    ImportConfig(<<>>, <<>>, <<"A", "3", ":", "A", "R">>, NoRelative,
                 TRUE, FALSE, FALSE)

ExampleAnchorWithoutHeader ==
    ImportConfig(<<>>, <<>>, <<"B", "2", ":", "C">>, NoRelative,
                 FALSE, FALSE, FALSE)

\* C3: when a dependent config is resolved against an anchor whose declared
\* range is open-ended, its effective range is the anchor's declared range
\* with the start row anchor.start.row + N + rows_offset (header) or
\* anchor.start.row + (N - 1) + rows_offset (no header), N being the rows
\* stored for the document in the anchor's table; "A3:AR", header, N = 50,
\* offset 2 gives "A55:AR" and "B2:C", no header, N = 10, offset 0 gives
\* start row 11.
C3_DependentStartRow ==
    /\ ResolvedDependentRange(ExampleAnchorWithHeader, 50, 2)
           = <<"A", "5", "5", ":", "A", "R">>
    /\ ResolvedDependentRange(ExampleAnchorWithoutHeader, 10, 0)
           = <<"B", "1", "1", ":", "C">>
    /\ [][\A p \in Procs :
            (pc[p] = "resolve" /\ pc'[p] = "create")
            => LET rel == importConfig[p].RelativeRange
                   anchor ==
                       option[p].ImportConfigs[rel.RelativeConfigIndex + 1]
                   n == CountRows(tables, GetTableName(anchor, platform[p]),
                                  docID[p])
               IN NewRange(anchor.Range).range.End.Row = 0
                  => importConfig'[p].Range =
                         ExpectedDependentRange(anchor, n, rel.RowsOffset)]_vars

\* document 1 under the headerless configuration: the anchor "A4:B" holds
\* two rows, so the dependent block starts at row 4 + (2 - 1) + 1 = 6
C3_Witness ==
    \E p \in Procs :
        /\ pc[p] = "create"
        /\ option[p] = HeaderlessConfig
        /\ importIdx[p] = 2
        /\ docID[p] = 1
        /\ importConfig[p].Range = <<"A", "6", ":", "B">>

\* C4: the import configs of a run are handled one at a time in list order:
\* whenever a step of the config at position i is under way, exactly the
\* configs 0..i-1 have had their insert, each once; the config being handled
\* is the one declared at position i; a config's steps follow the order
\* resolve, create, insert, fallback, and the position moves on by one, and
\* only with an insert that took effect.
C4_ImportsInDeclaredOrder ==
    /\ [](\A p \in Procs :
            /\ \A k \in 1..Len(inserted[p]) : inserted[p][k].idx = k - 1
            /\ InImportLoop(p)
               => /\ Len(inserted[p]) = importIdx[p]
                  /\ importIdx[p] < Len(option[p].ImportConfigs)
                  /\ LET declared ==
                             option[p].ImportConfigs[importIdx[p] + 1]
                     IN [importConfig[p] EXCEPT !.Range = declared.Range]
                            = declared
            /\ pc[p] \in {"project", "payout", "save"}
               => Len(inserted[p]) = Len(option[p].ImportConfigs))
    /\ [][\A p \in Procs :
            /\ importIdx'[p] # importIdx[p]
               => \/ pc'[p] = "start" /\ importIdx'[p] = 0
                  \/ /\ pc[p] \in {"insert", "fallback"}
                     /\ importIdx'[p] = importIdx[p] + 1
                     /\ Len(inserted'[p]) = Len(inserted[p]) + 1
            /\ (pc'[p] = "insert" /\ pc[p] # "insert")
               => (pc[p] = "create" /\ importIdx'[p] = importIdx[p])
            /\ (pc'[p] = "fallback" /\ pc[p] # "fallback")
               => (pc[p] = "insert" /\ importIdx'[p] = importIdx[p])
            /\ (pc'[p] = "create" /\ pc[p] = "resolve")
               => importIdx'[p] = importIdx[p]
            /\ (pc'[p] \in {"resolve", "create"}
                /\ pc[p] \notin {"resolve", "create"})
               => pc[p] \in {"start", "insert", "fallback"}]_vars

\* a run is at the third config after the first two were inserted, the
\* second one by the positional fallback or by name
C4_Witness ==
    \E p \in Procs :
        /\ pc[p] = "insert"
        /\ importIdx[p] = 2
        /\ Len(inserted[p]) = 2
        /\ inserted[p][2].rows # <<>>

\* C5: a failure of an import or export step ends the run's remaining steps
\* and reaches the caller as one error that carries the index of the failing
\* config and the platform.
C5_FailureTaggedWithIndexAndPlatform ==
    \A p \in Procs :
        (pc[p] = "done" /\ result[p] \in {"ingest failed", "project failed"})
        => /\ \E i \in 1..Len(err[p]) : err[p][i].kind = "index"
           /\ \E i \in 1..Len(err[p]) : err[p][i].kind = "platform"

\* rows is a block of consecutive rows of seq
IsBlockOf(rows, seq) ==
    \E off \in 0..(Len(seq) - Len(rows)) :
        SubSeq(seq, off + 1, off + Len(rows)) = rows

\* C6: when an import config fails in ProcessPlatformExcel, the step that
\* fails changes no table, and every block of rows the run inserted for the
\* configs before it is still in its table.
C6_PartialIngestionRemains ==
    /\ [](\A p \in Procs :
            (pc[p] = "done" /\ result[p] = "ingest failed")
            => \A k \in 1..Len(inserted[p]) :
                  /\ inserted[p][k].table \in DOMAIN tables
                  /\ IsBlockOf(inserted[p][k].rows,
                               tables[inserted[p][k].table]))
    /\ [][\A p \in Procs :
            (pc[p] # "done" /\ pc'[p] = "done"
             /\ result'[p] = "ingest failed")
            => tables' = tables]_vars

\* a run failed at a config after the first, having inserted rows before
C6_Witness ==
    \E p \in Procs :
        /\ pc[p] = "done"
        /\ result[p] = "ingest failed"
        /\ importIdx[p] >= 1
        /\ Len(inserted[p]) = importIdx[p]
        /\ inserted[p][1].rows # <<>>

\* C7: every step keeps every table and every row in it, in place; the rows
\* a step adds carry the document id of the run that takes the step, so a
\* run for document d changes no row of another document and tables only
\* grow.
C7_TablesAppendOnly ==
    [][\A t \in DOMAIN tables :
          /\ t \in DOMAIN tables'
          /\ Len(tables'[t]) >= Len(tables[t])
          /\ SubSeq(tables'[t], 1, Len(tables[t])) = tables[t]
          /\ \A k \in (Len(tables[t]) + 1)..Len(tables'[t]) :
                \E p \in Procs :
                   /\ pc[p] \in {"insert", "fallback"}
                   /\ importIdx'[p] = importIdx[p] + 1
                   /\ tables'[t][k].document_id = docID[p]]_vars

\* a table holds rows of document 1 followed by rows of document 2
C7_Witness ==
    \E t \in DOMAIN tables :
        \E i, j \in 1..Len(tables[t]) :
            /\ i < j
            /\ tables[t][i].document_id = 1
            /\ tables[t][j].document_id = 2

\* the rows of the document of p in the table of an export config
ExportRows(p, exportConfig) ==
    LET t == ExportTableName(exportConfig, platform[p])
    IN IF t \in DOMAIN tables THEN RowsOf(tables[t], docID[p]) ELSE <<>>

\* the reader configs of an export config that yield a value for field f
Yielding(exportConfig, f, rows) ==
    {i \in 1..Len(exportConfig.ReaderConfigs) :
        /\ exportConfig.ReaderConfigs[i].ColumnName = f
        /\ (rows # <<>>
            \/ exportConfig.ReaderConfigs[i].Expression = "count(*)")}

\* C8: GetPlatformExcelRows takes the export configs in list order; each
\* export sets the fields it yields a value for and leaves the others as
\* they are, so that in the final record a field holds the value of the last
\* export that declares it and fields of different exports are all present.
C8_ExportsMergeByField ==
    /\ [][\A p \in Procs :
            (pc[p] = "project" /\ exportIdx'[p] # exportIdx[p])
            => LET exportConfig == option[p].ExportConfigs[exportIdx[p] + 1]
                   rows == ExportRows(p, exportConfig)
               IN /\ exportIdx'[p] > exportIdx[p]
                  /\ \A j \in (exportIdx[p] + 2)..exportIdx'[p] :
                        option[p].ExportConfigs[j].ReaderConfigs = <<>>
                  /\ \A f \in Fields :
                        LET y == Yielding(exportConfig, f, rows)
                        IN IF y = {}
                           THEN payoutInput'[p][f] = payoutInput[p][f]
                           ELSE \E i \in y :
                                   payoutInput'[p][f] =
                                       Eval(exportConfig.ReaderConfigs[i]
                                                .Expression, rows)]_vars
    /\ [](\A p \in Procs :
            (pc[p] = "payout" /\ runs = 1)
            => \A f \in Fields :
                  LET exports == option[p].ExportConfigs
                      decl == {j \in 1..Len(exports) :
                                  Yielding(exports[j], f,
                                           ExportRows(p, exports[j])) # {}}
                      last == CHOOSE j \in decl : \A h \in decl : h <= j
                  IN IF decl = {}
                     THEN payoutInput[p][f] = 0
                     ELSE \E i \in Yielding(exports[last], f,
                                            ExportRows(p, exports[last])) :
                             payoutInput[p][f] =
                                 Eval(exports[last].ReaderConfigs[i]
                                          .Expression,
                                      ExportRows(p, exports[last])))

\* document 1 under the stacked configuration: gross_sales_amt comes from
\* the first export only, marketing_ads_amt from the second only, and
\* final_payout_amt, declared by both (7 and 5), holds the second one's 5
C8_Witness ==
    \E p \in Procs :
        /\ pc[p] = "payout"
        /\ runs = 1
        /\ option[p] = StackedConfig
        /\ payoutInput[p] = [gross_sales_amt |-> 7, marketing_ads_amt |-> 1,
                             final_payout_amt |-> 5]

\* C9: a projection step fails when its query fails and also when the
\* export's table holds no row for the document.
C9_MissingRowFailsProjection ==
    [][\A p \in Procs :
          (pc[p] = "project"
           /\ (pc'[p] # "project" \/ exportIdx'[p] # exportIdx[p])
           /\ ExportRows(p, option[p].ExportConfigs[exportIdx[p] + 1]) = <<>>)
          => (pc'[p] = "done" /\ result'[p] = "project failed")]_vars

\* C10: resolving a relative_config_index that is not a position of the
\* import-config list ends the run with an error from ProcessPlatformExcel
\* and the process keeps running.
C10_OutOfBoundsIndexIsAnError ==
    [][\A p \in Procs :
          (pc[p] = "resolve"
           /\ ~InBounds(importConfig[p].RelativeRange.RelativeConfigIndex,
                        option[p].ImportConfigs)
           /\ (pc'[p] # "resolve" \/ crashed' # crashed))
          => (pc'[p] = "done" /\ result'[p] = "ingest failed"
              /\ ~crashed')]_vars

(***************************************************************************)
(* ProcessPlatformExcel run alone for one document on an empty store, with *)
(* every statement succeeding: the outcome runs are compared with.         *)
(***************************************************************************)
\* the import config at position k (1-based) as the loop body uses it on db
SequentialConfig(db, d, plat, options, k) ==
    LET c == options.ImportConfigs[k]
        rel == c.RelativeRange
        anchor == options.ImportConfigs[rel.RelativeConfigIndex + 1]
        end == GetRangeEnd(db, d, plat, anchor, TRUE)
    IN IF rel.RelativeConfigIndex > 0
       THEN [c EXCEPT !.Range = ShiftedRange(anchor.Range, end.range,
                                             rel.RowsOffset).text]
       ELSE c

\* the tables after the first n import configs
RECURSIVE SequentialTables(_, _, _, _)
SequentialTables(d, plat, options, n) ==
    IF n = 0 THEN [t \in {} |-> <<>>]
    ELSE LET db == SequentialTables(d, plat, options, n - 1)
             c == SequentialConfig(db, d, plat, options, n)
             t == GetTableName(c, plat)
         IN InsertInto(CreateIfNotExists(db, t), t,
                       TaggedRows(d, ReadXlsx(Files(d), c).rows))

\* two runs were started, the second while the first was under way, for
\* different documents
TwoConcurrentDocuments ==
    /\ runs = 2
    /\ docID[1] # 0
    /\ docID[2] # 0
    /\ docID[1] # docID[2]

C12_ConfigurationImmutable ==
    /\ [](/\ DOMAIN duckDBConfigs = {SwiggyTagID}
          /\ duckDBConfigs[SwiggyTagID] \in PayoutConfigs
          /\ \A p \in Procs :
                pc[p] \notin {"idle", "start", "done"}
                => option[p] = duckDBConfigs[SwiggyTagID])
    /\ [][duckDBConfigs' = duckDBConfigs]_vars

\* in the second run for a document a dependent config is resolved to a
\* range other than its declared one, which the configuration still holds
C12_Witness ==
    \E p \in Procs :
        /\ runs = 2
        /\ pc[p] = "create"
        /\ importIdx[p] = 2
        /\ option[p] = StackedConfig
        /\ duckDBConfigs[SwiggyTagID] = StackedConfig
        /\ importConfig[p].Range # StackedConfig.ImportConfigs[3].Range

(***************************************************************************)
(* Document AI entities (package docai): Client.ExtractData on a document  *)
(* with one total_amount entity.                                           *)
(***************************************************************************)
\* documentaipb.Document_Entity: the mention text, the content of the text
\* anchor and the normalized value, which may be absent (nil)
Entity(mentionText, content, normalizedValue) ==
    [MentionText |-> mentionText, Content |-> content,
     NormalizedValue |-> normalizedValue]

NoNormalizedValue == [present |-> FALSE, Text |-> <<>>]

NormalizedValue(text) == [present |-> TRUE, Text |-> text]

\* client.go lines 185-205: the text taken for TotalAmount
TotalAmountText(entity) ==
    LET val == IF entity.MentionText = <<>> /\ entity.Content # <<>>
               THEN entity.Content ELSE entity.MentionText
    IN IF entity.NormalizedValue.present THEN entity.NormalizedValue.Text
       ELSE val

\* a formatting that pads a short fraction and keeps a long one
TwoDecimalsAtLeast(text) ==
    LET parts == Split(text, ".") IN
    IF Len(parts) = 1 THEN text \o <<".", "0", "0">>
    ELSE IF Len(parts) = 2
    THEN parts[1] \o <<".">> \o parts[2]
         \o (IF Len(parts[2]) = 0 THEN <<"0", "0">>
             ELSE IF Len(parts[2]) = 1 THEN <<"0">> ELSE <<>>)
    ELSE text

\* client.go lines 206-220: "a number with exactly two decimals"
TwoDecimals(text) ==
    LET parts == Split(text, ".") IN
    IF Len(parts) = 1 THEN text \o <<".", "0", "0">>
    ELSE IF Len(parts) = 2
    THEN LET fraction ==
                 IF Len(parts[2]) > 2 THEN SubSeq(parts[2], 1, 2)
                 ELSE IF Len(parts[2]) = 1 THEN parts[2] \o <<"0">>
                 ELSE IF Len(parts[2]) = 0 THEN <<"0", "0">>
                 ELSE parts[2]
         IN parts[1] \o <<".">> \o fraction
    ELSE text

\* Client.ExtractData: the TotalAmount of a document whose only entity is
\* this total_amount entity
ExtractData(entity) == [TotalAmount |-> TwoDecimals(TotalAmountText(entity))]

(***************************************************************************)
(* The library functions called on their own: the cell and range parsers   *)
(* and formatters of package excel on texts up to MaxLen characters.       *)
(***************************************************************************)
server ==
    <<duckDBConfigs, processed_documents, tables, payouts, crashed, runs,
      pc, docID, platform, option, importIdx, importConfig, exportIdx,
      payoutInput, err, result, inserted>>

\* the characters of the texts: column letters, digits and the separator
Alphabet == {"A", "R", "0", "3", ":"}

Texts == UNION {[1..k -> Alphabet] : k \in 0..MaxLen}

\* platform names with their lower-case spelling written out
PlatformNames ==
    {[name |-> <<"s", "w", "i", "g", "g", "y">>, lowered |-> <<"s", "w", "i", "g", "g", "y">>],
     [name |-> <<"S", "w", "i", "g", "g", "y">>, lowered |-> <<"s", "w", "i", "g", "g", "y">>],
     [name |-> <<"Z", "O", "M", "A", "T", "O">>, lowered |-> <<"z", "o", "m", "a", "t", "o">>]}

OrderLevel == <<"O", "r", "d", "e", "r", " ", "L", "e", "v", "e", "l">>

PayoutBreakup == <<"P", "a", "y", "o", "u", "t", " ", "B", "r", "e", "a",
                   "k", "u", "p">>

\* import configs: every combination of the flags with set and unset table
\* names, sheets and ranges
ImportConfigs ==
    {ImportConfig(t, sh, rg, NoRelative, h, st, av) :
        t \in {<<>>, <<"o", "d">>},
        sh \in {<<>>, OrderLevel, PayoutBreakup},
        rg \in {<<>>, <<"A", "3", ":", "A", "R">>, <<"A", "1", ":", "B", "2">>},
        h \in BOOLEAN, st \in BOOLEAN, av \in BOOLEAN}

\* amount texts: digits and decimal points
AmountTexts == UNION {[1..k -> {"1", "5", "."}] : k \in 0..MaxLen}

\* total_amount entities without and with a normalized value
Entities ==
    {Entity(m, c, NoNormalizedValue) :
        m \in AmountTexts, c \in {<<>>, <<"7", ".", "5">>}}
    \cup {Entity(m, <<>>, NormalizedValue(n)) :
            m \in {<<>>, <<"1", ".", "5">>}, n \in AmountTexts}

\* the tags a document may carry
TagSets == SUBSET {SwiggyTagID, MiscTagID}

\* Server.duckDBConfigs as the start-up leaves it: a configuration for the
\* Swiggy tag, or one for each of the two tags
ConfiguredPlatforms ==
    {(SwiggyTagID :> StackedConfig),
     (SwiggyTagID :> StackedConfig) @@ (MiscTagID :> HeaderlessConfig)}

Args ==
    {[kind |-> "tags", tags |-> t] : t \in TagSets}
    \cup {[kind |-> "text", text |-> t] : t \in Texts}
    \cup {[kind |-> "entity", entity |-> e] : e \in Entities}
    \cup {[kind |-> "config", config |-> c, platform |-> pl.name,
           lowered |-> pl.lowered] : c \in ImportConfigs, pl \in PlatformNames}

InitCalls ==
    /\ arg \in Args
    /\ duckDBConfigs \in (IF arg.kind = "tags" THEN ConfiguredPlatforms
                          ELSE {(SwiggyTagID :> StackedConfig)})
    /\ processed_documents = <<>>
    /\ tables = [t \in {} |-> <<>>]
    /\ payouts = <<>>
    /\ crashed = FALSE
    /\ runs = 0
    /\ pc = [p \in Procs |-> "idle"]
    /\ docID = [p \in Procs |-> 0]
    /\ platform = [p \in Procs |-> <<>>]
    /\ option = [p \in Procs |-> ZeroPlatformConfig]
    /\ importIdx = [p \in Procs |-> 0]
    /\ importConfig = [p \in Procs |-> ZeroImportConfig]
    /\ exportIdx = [p \in Procs |-> 0]
    /\ payoutInput = [p \in Procs |-> ZeroPayoutInput]
    /\ err = [p \in Procs |-> <<>>]
    /\ result = [p \in Procs |-> ""]
    /\ inserted = [p \in Procs |-> <<>>]
    /\ ret = NoCall

\* excel.NewCell(arg)
CallNewCell ==
    /\ arg.kind = "text"
    /\ ret = NoCall
    /\ ret' = [fn |-> "NewCell", out |-> NewCell(arg.text)]
    /\ UNCHANGED <<arg, server>>

\* Cell.String() on the cell NewCell returned
CallCellString ==
    /\ ret.fn = "NewCell"
    /\ ret.out.ok
    /\ ret' = [fn |-> "Cell.String", out |-> CellString(ret.out.cell)]
    /\ UNCHANGED <<arg, server>>

\* excel.NewRange(arg)
CallNewRange ==
    /\ arg.kind = "text"
    /\ ret = NoCall
    /\ ret' = [fn |-> "NewRange", out |-> NewRange(arg.text)]
    /\ UNCHANGED <<arg, server>>

\* Range.String() on the range NewRange returned
CallRangeString ==
    /\ ret.fn = "NewRange"
    /\ ret.out.ok
    /\ ret' = [fn |-> "Range.String", out |-> RangeString(ret.out.range)]
    /\ UNCHANGED <<arg, server>>

\* ImportConfig.GetTableName(platform)
CallGetTableName ==
    /\ arg.kind = "config"
    /\ ret = NoCall
    /\ ret' = [fn |-> "GetTableName",
               out |-> GetTableName(arg.config, arg.platform)]
    /\ UNCHANGED <<arg, server>>

\* ImportConfig.ToOptionString()
CallToOptionString ==
    /\ arg.kind = "config"
    /\ ret = NoCall
    /\ ret' = [fn |-> "ToOptionString", out |-> ToOptionString(arg.config)]
    /\ UNCHANGED <<arg, server>>

\* Client.ExtractData(doc)
CallExtractData ==
    /\ arg.kind = "entity"
    /\ ret = NoCall
    /\ ret' = [fn |-> "ExtractData", out |-> ExtractData(arg.entity)]
    /\ UNCHANGED <<arg, server>>

\* processPayout lines 485-501 on a document with the tags arg: one walk
\* over the tagIDs map, in any of the orders Go may take
CallSelectPlatform ==
    /\ arg.kind = "tags"
    /\ ret = NoCall
    /\ \E selected \in SelectPlatform(arg.tags) :
          ret' = [fn |-> "SelectPlatform", out |-> selected]
    /\ UNCHANGED <<arg, server>>

NextCalls ==
    \/ CallSelectPlatform
    \/ CallExtractData
    \/ CallNewCell
    \/ CallCellString
    \/ CallNewRange
    \/ CallRangeString
    \/ CallGetTableName
    \/ CallToOptionString

SpecCalls == InitCalls /\ [][NextCalls]_vars

\* column letters followed by nothing or by digits
LettersThenDigits(t) ==
    \E k \in 0..Len(t) :
        /\ \A i \in 1..k : t[i] \in {"A", "R"}
        /\ \A i \in (k + 1)..Len(t) : IsDigit(t[i])

\* the same, the digits being a row number written without a leading zero
LettersThenRow(t) ==
    /\ LettersThenDigits(t)
    /\ \A i \in 1..Len(t) :
          (IsDigit(t[i]) /\ (i = 1 \/ ~IsDigit(t[i - 1]))) => t[i] # "0"

\* C13 as stated: every text of column letters optionally followed by
\* digits is parsed by NewCell and formatted back to itself by Cell.String.
C13_CellRoundTrip ==
    (arg.kind = "text" /\ LettersThenDigits(arg.text))
    => /\ ret.fn = "NewCell" => ret.out.ok
       /\ ret.fn = "Cell.String" => ret.out = arg.text

\* C13 amended: every text of column letters optionally followed by a row
\* number from 1 on, written without leading zeros, is parsed by NewCell and
\* formatted back to itself by Cell.String.
C13_CanonicalCellRoundTrip ==
    (arg.kind = "text" /\ LettersThenRow(arg.text))
    => /\ ret.fn = "NewCell" => ret.out.ok
       /\ ret.fn = "Cell.String" => ret.out = arg.text

\* "AR30" and the column-only "AR" went through NewCell and Cell.String
C13_Witness ==
    /\ ret.fn = "Cell.String"
    /\ arg.text \in {<<"A", "R", "3", "0">>, <<"A", "R">>}
    /\ ret.out = arg.text

\* the parts of a text around its ':' characters are all cell texts
CellsAndColons(t, cellText(_)) ==
    \A i \in 1..Len(Split(t, ":")) : cellText(Split(t, ":")[i])

Colons(t) == Cardinality({i \in 1..Len(t) : t[i] = ":"})

\* C14 as stated: every text of two cell texts (letters optionally followed
\* by digits, the end possibly without a row) around one ':' is parsed by
\* NewRange and formatted back to itself by Range.String.
C14_RangeRoundTrip ==
    (arg.kind = "text" /\ Colons(arg.text) = 1
     /\ CellsAndColons(arg.text, LettersThenDigits))
    => /\ ret.fn = "NewRange" => ret.out.ok
       /\ ret.fn = "Range.String" => ret.out = arg.text

\* C14 amended: every text of two cell texts around one ':', each of column
\* letters optionally followed by a row number from 1 on without leading
\* zeros, is parsed by NewRange and formatted back to itself by
\* Range.String.
C14_CanonicalRangeRoundTrip ==
    (arg.kind = "text" /\ Colons(arg.text) = 1
     /\ CellsAndColons(arg.text, LettersThenRow))
    => /\ ret.fn = "NewRange" => ret.out.ok
       /\ ret.fn = "Range.String" => ret.out = arg.text

\* the open-ended "A3:R" went through NewRange and Range.String
C14_Witness ==
    /\ ret.fn = "Range.String"
    /\ arg.text = <<"A", "3", ":", "R">>
    /\ ret.out = arg.text
    /\ ret.out # <<"A", "3", ":", "R", "0">>

\* C15: NewRange returns the invalid-range-format error, and no range, for
\* every text that does not hold exactly one ':'.
C15_NewRangeNeedsOneColon ==
    (arg.kind = "text" /\ ret.fn = "NewRange" /\ Colons(arg.text) # 1)
    => /\ ~ret.out.ok
       /\ ret.out.err = "invalid range format"
       /\ ret.out.range = ZeroRange

\* NewRange was called on "A3AR", on the empty text and on "A:R:"
C15_Witness ==
    /\ ret.fn = "NewRange"
    /\ arg.text \in {<<"A", "3", "A", "R">>, <<>>, <<"A", ":", "R", ":">>}
    /\ ~ret.out.ok

\* out is the text with every character a replaced by b, all else kept
Swapped(out, text, a, b) ==
    /\ Len(out) = Len(text)
    /\ \A i \in 1..Len(text) : out[i] = (IF text[i] = a THEN b ELSE text[i])

\* C16: GetTableName returns a set table_name as it is; otherwise the name
\* is payout_, the platform in lower case, '_', the sheet with '_' for
\* every space, '_', and the range with '_' for every ':', sheet and range
\* keeping their case; platform "swiggy", sheet "Order Level" and range
\* "A3:AR" give payout_swiggy_Order_Level_A3_AR.
C16_TableName ==
    /\ GetTableName(ImportConfig(<<>>, OrderLevel, <<"A", "3", ":", "A", "R">>,
                                 NoRelative, TRUE, FALSE, FALSE),
                    <<"s", "w", "i", "g", "g", "y">>)
           = <<"p", "a", "y", "o", "u", "t", "_", "s", "w", "i", "g", "g",
               "y", "_", "O", "r", "d", "e", "r", "_", "L", "e", "v", "e",
               "l", "_", "A", "3", "_", "A", "R">>
    /\ (arg.kind = "config" /\ ret.fn = "GetTableName")
       => LET c == arg.config
              pre == <<"p", "a", "y", "o", "u", "t", "_">> \o arg.lowered
                     \o <<"_">>
              mid == Len(pre) + Len(c.Sheet) + 1
          IN IF c.TableName # <<>> THEN ret.out = c.TableName
             ELSE /\ Len(ret.out) = mid + Len(c.Range)
                  /\ SubSeq(ret.out, 1, Len(pre)) = pre
                  /\ Swapped(SubSeq(ret.out, Len(pre) + 1, mid - 1),
                             c.Sheet, " ", "_")
                  /\ ret.out[mid] = "_"
                  /\ Swapped(SubSeq(ret.out, mid + 1, Len(ret.out)),
                             c.Range, ":", "_")

\* the name derived for platform "ZOMATO", sheet "Order Level" and range
\* "A3:AR" holds the capitals of the sheet and the range
C16_Witness ==
    /\ ret.fn = "GetTableName"
    /\ arg.config.TableName = <<>>
    /\ arg.config.Sheet = OrderLevel
    /\ arg.config.Range = <<"A", "3", ":", "A", "R">>
    /\ ret.out = <<"p", "a", "y", "o", "u", "t", "_", "z", "o", "m", "a", "t",
                "o", "_", "O", "r", "d", "e", "r", "_", "L", "e", "v", "e",
                "l", "_", "A", "3", "_", "A", "R">>

\* position of the first occurrence of sub in s, 0 when there is none
IndexOf(s, sub) ==
    LET at == {i \in 1..(Len(s) - Len(sub) + 1) :
                  SubSeq(s, i, i + Len(sub) - 1) = sub}
    IN IF at = {} THEN 0 ELSE CHOOSE i \in at : \A j \in at : i <= j

\* the five options of a config in the order of the claim: whether set, the
\* key, and the fragment to emit
Fragments(c) ==
    <<[set |-> c.Header, key |-> <<"h", "e", "a", "d", "e", "r">>,
       text |-> <<"h", "e", "a", "d", "e", "r", "=", "t", "r", "u", "e">>],
      [set |-> c.StopAtEmpty,
       key |-> <<"s", "t", "o", "p", "_", "a", "t", "_", "e", "m", "p",
                 "t", "y">>,
       text |-> <<"s", "t", "o", "p", "_", "a", "t", "_", "e", "m", "p",
                 "t", "y", "=", "t", "r", "u", "e">>],
      [set |-> c.AllVarchar,
       key |-> <<"a", "l", "l", "_", "v", "a", "r", "c", "h", "a", "r">>,
       text |-> <<"a", "l", "l", "_", "v", "a", "r", "c", "h", "a", "r",
                 "=", "t", "r", "u", "e">>],
      [set |-> c.Sheet # <<>>, key |-> <<"s", "h", "e", "e", "t">>,
       text |-> <<"s", "h", "e", "e", "t">> \o <<"=", "'">> \o c.Sheet \o <<"'">>],
      [set |-> c.Range # <<>>, key |-> <<"r", "a", "n", "g", "e">>,
       text |-> <<"r", "a", "n", "g", "e">> \o <<"=", "'">> \o c.Range \o <<"'">>]>>

RECURSIVE SumLen(_, _)
SumLen(frags, n) ==
    IF n = 0 THEN 0
    ELSE SumLen(frags, n - 1)
         + (IF frags[n].set
            THEN Len(frags[n].text) + (IF n < 5 THEN 1 ELSE 0) ELSE 0)

\* C17: ToOptionString holds the fragment of every option that is set, the
\* value of sheet and range in quotes, in the order header, stop_at_empty,
\* all_varchar, sheet, range, a comma after each of the first four; an
\* option that is not set leaves no trace, not even its key, and nothing
\* else is emitted.
C17_OptionString ==
    /\ ToOptionString(ImportConfig(<<>>, PayoutBreakup, <<>>, NoRelative,
                                   TRUE, TRUE, FALSE))
           = <<"h", "e", "a", "d", "e", "r", "=", "t", "r", "u", "e", ",",
               "s", "t", "o", "p", "_", "a", "t", "_", "e", "m", "p", "t",
               "y", "=", "t", "r", "u", "e", ",", "s", "h", "e", "e", "t",
               "=", "'", "P", "a", "y", "o", "u", "t", " ", "B", "r", "e",
               "a", "k", "u", "p", "'", ",">>
    /\ (arg.kind = "config" /\ ret.fn = "ToOptionString")
       => LET f == Fragments(arg.config) IN
          /\ \A i \in 1..5 :
                IF f[i].set THEN IndexOf(ret.out, f[i].text) > 0
                ELSE IndexOf(ret.out, f[i].key) = 0
          /\ \A i, j \in 1..5 :
                (i < j /\ f[i].set /\ f[j].set)
                => IndexOf(ret.out, f[i].text) + Len(f[i].text)
                       < IndexOf(ret.out, f[j].text)
          /\ \A i \in 1..4 :
                f[i].set
                => ret.out[IndexOf(ret.out, f[i].text) + Len(f[i].text)] = ","
          /\ Len(ret.out) = SumLen(f, 5)

\* the claim's example: header, stop_at_empty and sheet "Payout Breakup"
\* set, all_varchar and range not
C17_Witness ==
    /\ ret.fn = "ToOptionString"
    /\ arg.config.Header
    /\ arg.config.StopAtEmpty
    /\ ~arg.config.AllVarchar
    /\ arg.config.Sheet = PayoutBreakup
    /\ arg.config.Range = <<>>
    /\ ret.out = <<"h", "e", "a", "d", "e", "r", "=", "t", "r", "u", "e", ",",
               "s", "t", "o", "p", "_", "a", "t", "_", "e", "m", "p", "t",
               "y", "=", "t", "r", "u", "e", ",", "s", "h", "e", "e", "t",
               "=", "'", "P", "a", "y", "o", "u", "t", " ", "B", "r", "e",
               "a", "k", "u", "p", "'", ",">>

\* out is text cut or padded to two characters after its first '.', which
\* is added when the text has none
HasTwoDecimalsOf(out, text) ==
    LET k == IndexOf(text, <<".">>)
        whole == IF k = 0 THEN text ELSE SubSeq(text, 1, k - 1)
        fraction == IF k = 0 THEN <<>> ELSE SubSeq(text, k + 1, Len(text))
    IN /\ Len(out) = Len(whole) + 3
       /\ SubSeq(out, 1, Len(whole)) = whole
       /\ out[Len(whole) + 1] = "."
       /\ \A i \in 1..2 :
             out[Len(whole) + 1 + i]
                 = (IF i <= Len(fraction) THEN fraction[i] ELSE "0")

Points(text) == Cardinality({i \in 1..Len(text) : text[i] = "."})

C19_AtMostOncePerDocument ==
    \A d \in Docs :
        /\ Cardinality({i \in 1..Len(payouts) :
                           payouts[i].document_id = d}) <= 1
        /\ \A t \in DOMAIN tables :
              t = SummaryImport.TableName => Len(RowsOf(tables[t], d)) <= 1

\* C20: when runs follow one another (no two at a time), the range a run
\* resolves for a dependent import config is the one the first run for the
\* document resolved on the empty store, whatever earlier runs for the
\* document have left in the tables.
C20_SameRangeOnEveryRun ==
    \A p \in Procs :
        (/\ \A q \in Procs \ {p} : pc[q] = "idle"
         /\ pc[p] \in {"create", "insert", "fallback"}
         /\ importConfig[p].RelativeRange.RelativeConfigIndex > 0)
        => LET options == duckDBConfigs[SwiggyTagID]
               first == SequentialTables(docID[p], Swiggy, options,
                                         importIdx[p])
           IN importConfig[p].Range
                  = SequentialConfig(first, docID[p], Swiggy, options,
                                     importIdx[p] + 1).Range

\* the rows a run at an insert reads from its document's file, tagged
RegionRows(p) ==
    TaggedRows(docID[p], ReadXlsx(Files(docID[p]), importConfig[p]).rows)

\* C21: the positional insert is reached only from a name-based insert that
\* failed and left the tables as they were, the name-based insert only from
\* the create step; the step that completes a config appends the region's
\* rows to the config's table exactly once.
C21_NameBasedThenPositional ==
    [][\A p \in Procs :
          /\ (pc'[p] = "fallback" /\ pc[p] # "fallback")
             => (pc[p] = "insert" /\ tables' = tables
                 /\ inserted'[p] = inserted[p])
          /\ (pc'[p] = "insert" /\ pc[p] # "insert") => pc[p] = "create"
          /\ importIdx'[p] = importIdx[p] + 1
             => LET t == GetTableName(importConfig[p], platform[p])
                IN /\ pc[p] \in {"insert", "fallback"}
                   /\ t \in DOMAIN tables
                   /\ tables' = [tables EXCEPT ![t] = @ \o RegionRows(p)]
                   /\ inserted'[p] = Append(inserted[p],
                                            [idx |-> importIdx[p],
                                             table |-> t,
                                             rows |-> RegionRows(p)])]_vars

\* the name-based insert of the anchor block of document 1 failed and the
\* positional insert is about to run; the block is not in its table
C21_Witness ==
    \E p \in Procs :
        /\ pc[p] = "fallback"
        /\ docID[p] = 1
        /\ importIdx[p] = 1
        /\ RegionRows(p) # <<>>
        /\ RowsOf(tables[GetTableName(importConfig[p], platform[p])], 1) = <<>>

\* C22: when the positional insert fails after the name-based one, the run
\* ends with one error that holds the text of the ingestion failure and the
\* two driver errors; the step changes no table, and the configs after the
\* failing one are neither created nor inserted; the loop goes on past a
\* positional insert only when that insert stored the region's rows.
C22_BothInsertsFailed ==
    /\ [][\A p \in Procs :
            (pc[p] = "fallback" /\ pc'[p] = "done")
            => /\ result'[p] = "ingest failed"
               /\ err'[p][1] = Msg("failed to insert excel data")
               /\ Cardinality({i \in 1..Len(err'[p]) :
                                  err'[p][i] = DriverError}) = 2
               /\ tables' = tables
               /\ inserted'[p] = inserted[p]
               /\ importIdx'[p] = importIdx[p]]_vars
    /\ [][\A p \in Procs :
            (pc[p] = "fallback" /\ pc'[p] \notin {"fallback", "done"})
            => tables'[GetTableName(importConfig[p], platform[p])]
               = tables[GetTableName(importConfig[p], platform[p])]
                 \o RegionRows(p)]_vars
    /\ [][\A p \in Procs :
            (pc[p] = "done" /\ pc'[p] = "done")
            => (inserted'[p] = inserted[p] /\ importIdx'[p] = importIdx[p]
                /\ err'[p] = err[p])]_vars

\* both inserts of the second config failed: the run is over with the
\* first config's rows stored and nothing for the second and third
C22_Witness ==
    \E p \in Procs :
        /\ pc[p] = "done"
        /\ result[p] = "ingest failed"
        /\ err[p] # <<>>
        /\ err[p][1] = Msg("failed to insert excel data")
        /\ importIdx[p] = 1
        /\ Len(inserted[p]) = 1
        /\ duckDBConfigs[SwiggyTagID] = StackedConfig

\* the config a run at a resolve step names as its anchor
AnchorOf(p) ==
    option[p].ImportConfigs[
        importConfig[p].RelativeRange.RelativeConfigIndex + 1]

\* a run is at a resolve step whose anchor position is inside the list
Resolving(p) ==
    /\ pc[p] = "resolve"
    /\ InBounds(importConfig[p].RelativeRange.RelativeConfigIndex,
                option[p].ImportConfigs)

\* C23: for an anchor whose declared range has an end row other than zero,
\* GetRangeEnd returns the declared range as it is, without a count query
\* and whether or not a query would succeed; the resolve step then cannot
\* fail and gives the dependent config the start row declared end row +
\* rows_offset, whatever rows the anchor's table holds.
C23_ExplicitEndRowIsNotCounted ==
    /\ [](\A p \in Procs :
            (Resolving(p) /\ NewRange(AnchorOf(p).Range).ok
             /\ NewRange(AnchorOf(p).Range).range.End.Row > 0)
            => \A queryOk \in BOOLEAN :
                  GetRangeEnd(tables, docID[p], platform[p], AnchorOf(p),
                              queryOk)
                  = [ok |-> TRUE, counted |-> FALSE, err |-> <<>>,
                     range |-> NewRange(AnchorOf(p).Range).range])
    /\ [][\A p \in Procs :
            (Resolving(p) /\ pc'[p] # "resolve"
             /\ NewRange(AnchorOf(p).Range).ok
             /\ NewRange(AnchorOf(p).Range).range.End.Row > 0)
            => /\ pc'[p] = "create"
               /\ NewRange(importConfig'[p].Range).range.Start.Row
                  = NewRange(AnchorOf(p).Range).range.End.Row
                    + importConfig[p].RelativeRange.RowsOffset]_vars

\* document 2 stored no row for the anchor "A3:B5"; the dependent config
\* starts at row 5 all the same
C23_Witness ==
    \E p \in Procs :
        /\ pc[p] = "create"
        /\ option[p] = ChainedConfig
        /\ importIdx[p] = 2
        /\ docID[p] = 2
        /\ CountRows(tables, <<"o", "d">>, 2) = 0
        /\ importConfig[p].Range = <<"A", "5", ":", "B", "5">>

\* C24: the effective range a resolve step gives a dependent config is the
\* anchor's declared range text with another start row: the start column is
\* the declared one and the text of the end cell is the declared end cell's,
\* not the end cell GetRangeEnd computed.
C24_EffectiveRangeFromDeclared ==
    [][\A p \in Procs :
          (Resolving(p) /\ pc'[p] = "create")
          => LET declared == AnchorOf(p).Range
                 effective == importConfig'[p].Range
             IN /\ NewRange(effective).ok
                /\ NewRange(effective).range.Start.Column
                   = NewRange(declared).range.Start.Column
                /\ NewRange(effective).range.End
                   = NewRange(declared).range.End
                /\ Split(effective, ":")[2] = Split(declared, ":")[2]
                /\ importConfig'[p]
                   = [importConfig[p] EXCEPT !.Range = effective]]_vars

\* document 1 under the stacked configuration: the anchor "A3:B" was
\* resolved to end at row 5, and the dependent config has "A7:B"
C24_Witness ==
    \E p \in Procs :
        /\ pc[p] = "create"
        /\ option[p] = StackedConfig
        /\ importIdx[p] = 2
        /\ docID[p] = 1
        /\ CountRows(tables, GetTableName(StackedConfig.ImportConfigs[2],
                                          platform[p]), 1) = 2
        /\ importConfig[p].Range = <<"A", "7", ":", "B">>

\* C25: a config whose relative_config_index is 0 is handled with its
\* declared range and never passes through the resolve step; a resolve step
\* is only taken for an index above 0, so its anchor is never the first
\* entry of the list.
C25_IndexZeroIsNotRelative ==
    /\ [](\A p \in Procs :
            /\ pc[p] = "resolve"
               => importConfig[p].RelativeRange.RelativeConfigIndex > 0
            /\ (InImportLoop(p)
                /\ option[p].ImportConfigs[importIdx[p] + 1]
                      .RelativeRange.RelativeConfigIndex = 0)
               => /\ pc[p] # "resolve"
                  /\ importConfig[p]
                     = option[p].ImportConfigs[importIdx[p] + 1])
    /\ [][\A p \in Procs :
            (pc'[p] = "create" /\ pc[p] # "create"
             /\ importConfig'[p].RelativeRange.RelativeConfigIndex = 0)
            => pc[p] \in {"start", "insert", "fallback"}]_vars

\* the second config of the stacked configuration has index 0: its insert
\* is under way with the declared range "A3:B"
C25_Witness ==
    \E p \in Procs :
        /\ pc[p] = "insert"
        /\ option[p] = StackedConfig
        /\ importIdx[p] = 1
        /\ importConfig[p].RelativeRange.RelativeConfigIndex = 0
        /\ importConfig[p].Range = <<"A", "3", ":", "B">>

\* the store with the rows of every document but d taken out
StoreOf(d) ==
    [t \in DOMAIN tables |->
        SelectSeq(tables[t], LAMBDA r : r.document_id = d)]

\* C26: every row a run for document d adds to a table carries
\* document_id = d; the range a resolve step gets from GetRangeEnd and the
\* record an export step projects are the ones the store would give if it
\* held the rows of d only.
C26_RowsScopedToDocument ==
    /\ [][\A t \in DOMAIN tables' :
            LET old == IF t \in DOMAIN tables THEN tables[t] ELSE <<>>
            IN \A i \in (Len(old) + 1)..Len(tables'[t]) :
                  \E p \in Procs :
                      /\ pc[p] \in {"insert", "fallback"}
                      /\ inserted'[p] # inserted[p]
                      /\ tables'[t][i].document_id = docID[p]]_vars
    /\ [](\A p \in Procs :
            Resolving(p)
            => \A queryOk \in BOOLEAN :
                  GetRangeEnd(tables, docID[p], platform[p], AnchorOf(p),
                              queryOk)
                  = GetRangeEnd(StoreOf(docID[p]), docID[p], platform[p],
                                AnchorOf(p), queryOk))
    /\ [][\A p \in Procs :
            (pc[p] = "project" /\ exportIdx'[p] # exportIdx[p])
            => LET exportConfig == option[p].ExportConfigs[exportIdx[p] + 1]
                   t == ExportTableName(exportConfig, platform[p])
                   rows == IF t \in DOMAIN tables THEN StoreOf(docID[p])[t]
                           ELSE <<>>
               IN payoutInput'[p]
                  = ScanInto(payoutInput[p], JsonMap(exportConfig, rows))]_vars

\* a run for one document is about to count the rows of an anchor whose
\* table holds rows of that document and of another one
C26_Witness ==
    \E p \in Procs :
        /\ Resolving(p)
        /\ GetRangeEnd(tables, docID[p], platform[p], AnchorOf(p),
                       TRUE).counted
        /\ GetTableName(AnchorOf(p), platform[p]) \in DOMAIN tables
        /\ LET rows == tables[GetTableName(AnchorOf(p), platform[p])]
           IN /\ \E i \in 1..Len(rows) : rows[i].document_id = docID[p]
              /\ \E i \in 1..Len(rows) : rows[i].document_id # docID[p]

\* a run is at a resolve step in which GetRangeEnd issues the count query
Counting(p) ==
    /\ Resolving(p)
    /\ GetRangeEnd(tables, docID[p], platform[p], AnchorOf(p), TRUE).counted

\* C27: when the resolver counts the rows of an anchor that the run has
\* already ingested, the table it counts in is the table the anchor's rows
\* were inserted into, also when the anchor is itself a relative config
\* whose table name is derived.
C27_CountsInTheAnchorsTable ==
    \A p \in Procs :
        LET j == importConfig[p].RelativeRange.RelativeConfigIndex IN
        (Counting(p) /\ j < Len(inserted[p]))
        => GetTableName(AnchorOf(p), platform[p]) = inserted[p][j + 1].table

\* C28: whenever the resolver counts for the config at position i, the
\* anchor's position is below i and the anchor's insert of this run is done.
C28_AnchorPrecedesDependent ==
    \A p \in Procs :
        LET j == importConfig[p].RelativeRange.RelativeConfigIndex IN
        Counting(p)
        => /\ j < importIdx[p]
           /\ j < Len(inserted[p])
           /\ inserted[p][j + 1].idx = j

\* C29: the range GetRangeEnd returns for an anchor never ends above the
\* anchor's start row, and a dependent config with rows_offset >= 0 never
\* starts above it.
C29_EndRowNotAboveStartRow ==
    \A p \in Procs :
        LET end == GetRangeEnd(tables, docID[p], platform[p], AnchorOf(p),
                               TRUE)
            offset == importConfig[p].RelativeRange.RowsOffset
        IN (Resolving(p) /\ end.ok /\ end.counted)
           => /\ end.range.End.Row >= end.range.Start.Row
              /\ offset >= 0
                 => NewRange(ShiftedRange(AnchorOf(p).Range, end.range,
                                          offset).text).range.Start.Row
                    >= NewRange(AnchorOf(p).Range).range.Start.Row

\* C30: the platform and the configuration processPayout selects are fixed
\* by the document's tags, also for a document with more than one configured
\* tag: every walk over the tags selects the same pair; and the
\* configuration selected is the one registered for the selected platform's
\* tag.
C30_SelectionFixedByTags ==
    ret.fn = "SelectPlatform"
    => /\ \A other \in SelectPlatform(arg.tags) : other = ret.out
       /\ ret.out.platform # <<>>
          => /\ tagIDs[ret.out.platform] \in arg.tags
             /\ ret.out.option = duckDBConfigs[tagIDs[ret.out.platform]]

=============================================================================
